---- MODULE Spec2Model ----
(***************************************************************************)
(* A model of js/render/core/renderer.js: the GPU resource wrappers        *)
(* (RenderBuffer, RenderPrimitive, RenderTexture, RenderMaterial) and the  *)
(* Renderer's caches and per-frame draw protocol.                          *)
(*                                                                         *)
(* JavaScript runs every handler to completion, so each public method and  *)
(* each promise continuation is one atomic action.  The GL context is      *)
(* modelled by the sequence of calls a drawViews call issues (glLog).      *)
(***************************************************************************)
EXTENDS Integers, Sequences, FiniteSets, TLC

VARIABLES
  cfg,               \* Renderer constructor: [multiviewRequested, mvExt, vaoExt, useDepth]
  frameId,           \* Renderer._frameId
  buffers,           \* RenderBuffer objects: [ready, src]
  prims,             \* RenderPrimitive objects
  completions,       \* pending Promise.all(...).then continuations of waitForComplete
  renderPrimitives,  \* Renderer._renderPrimitives: bucket -> sequence of primitive ids
  mats,              \* RenderMaterial objects
  programCache,      \* Renderer._programCache: sequence of [key, uniform]
  textures,          \* texture cache entries (RenderTexture objects or plain objects)
  textureCache,      \* Renderer._textureCache: key -> entry id (0: absent)
  texLog,            \* per key: createTexture calls, initial uploads performed or scheduled
  maskReset,         \* [color |-> _colorMaskNeedsReset, depth |-> _depthMaskNeedsReset]
  cameraPositions,   \* length of Renderer._cameraPositions
  gpuMask,           \* write masks of the GL context: [color, depth], TRUE when enabled
  glLog,             \* GL state, uniform and draw calls issued by the last handler
  err,               \* error raised by the last handler ("" when none)
  call,              \* the last handler and its arguments:
                     \* [op, views, root, depthData, material, texture]
  boundState,        \* state word of the material bound last in the bucket (-1: none)
  prevBound,         \* the prevState the last _bindMaterialState call diffed against (-1: none)
  app                \* the application script: its variables, its pending click
                     \* handlers and the browser's XR session

vars == <<cfg, frameId, buffers, prims, completions, renderPrimitives,
          mats, programCache, textures, textureCache, texLog, maskReset,
          cameraPositions, glLog, err, call, boundState, prevBound, gpuMask,
          app>>

(***************************************************************************)
(* Bounds of the model.                                                    *)
(***************************************************************************)
MaxPrims == 2
MaxBufs == 2
MaxInst == 2
MaxFrames == 2
MaxAssign == 1
MaxUpdates == 2
MaxRun == 3
MaxClicks == 2
MaxNodes == 2

(***************************************************************************)
(* material.js (imported at renderer.js:21, not part of the sources): the  *)
(* packed state word.  Capability bits, then 4 bits of blend source, 4     *)
(* bits of blend destination and 4 bits of depth function.                 *)
(***************************************************************************)
CAP_CULL_FACE == 1
CAP_BLEND == 2
CAP_DEPTH_TEST == 4
CAP_STENCIL_TEST == 8
CAP_COLOR_MASK == 16
CAP_DEPTH_MASK == 32
CAP_STENCIL_MASK == 64
CAPS_RANGE == 255
BLEND_SRC_SHIFT == 8
BLEND_SRC_RANGE == 3840
BLEND_DST_SHIFT == 12
BLEND_DST_RANGE == 61440
BLEND_FUNC_RANGE == 65280
DEPTH_FUNC_SHIFT == 16
DEPTH_FUNC_RANGE == 983040
RENDER_ORDER_OPAQUE == 0
RENDER_ORDER_SKY == 1
RENDER_ORDER_TRANSPARENT == 2
RENDER_ORDER_ADDITIVE == 3
RENDER_ORDER_DEFAULT == 4
GL_SRC_COLOR == 768
GL_NEVER == 512

RECURSIVE Pow2(_)
Pow2(n) == IF n = 0 THEN 1 ELSE 2 * Pow2(n - 1)

\* JavaScript's & on 32-bit two's complement words, for a mask b >= 0: the low
\* bit of a negative a is a % 2 and a \div 2 is its arithmetic shift.
RECURSIVE BitAnd(_, _)
BitAnd(a, b) ==
  IF a = 0 \/ b = 0 THEN 0
  ELSE (a % 2) * (b % 2) + 2 * BitAnd(a \div 2, b \div 2)

\* JavaScript's ^ on two words >= 0
RECURSIVE BitXor(_, _)
BitXor(a, b) ==
  IF a = 0 THEN b
  ELSE IF b = 0 THEN a
  ELSE ((a + b) % 2) + 2 * BitXor(a \div 2, b \div 2)

\* JavaScript's ~ on a 32-bit two's complement word
BitNot(a) == -a - 1

ShiftRight(a, n) == a \div Pow2(n)

\* MaterialState: the word packed from capabilities and functions.
MakeState(caps, src, dst, dfunc) ==
  caps + src * Pow2(BLEND_SRC_SHIFT) + dst * Pow2(BLEND_DST_SHIFT)
       + dfunc * Pow2(DEPTH_FUNC_SHIFT)

stateToBlendFunc(state, mask, shift) ==
  LET value == ShiftRight(BitAnd(state, mask), shift)
  IN IF value <= 1 THEN value ELSE (value - 2) + GL_SRC_COLOR

(***************************************************************************)
(* GL calls, as recorded in glLog, and handler calls, as recorded in call. *)
(***************************************************************************)
NoDepth == [present |-> FALSE, items |-> <<>>]
NoTexture == [key |-> "", kind |-> "none"]
NoMaterial ==
  [name |-> "", vs |-> FALSE, fs |-> FALSE, defines |-> <<>>, declares |-> {},
   state |-> 0, renderOrder |-> 0, samplers |-> <<>>, uniforms |-> <<>>]
Called(op) ==
  [op |-> op, views |-> <<>>, root |-> FALSE, depthData |-> NoDepth,
   material |-> NoMaterial, texture |-> NoTexture]
GLCall(op, name, a, b, c) == [op |-> op, name |-> name, a |-> a, b |-> b, c |-> c]

(***************************************************************************)
(* RenderMaterial: state fetchers and diff predicates.                     *)
(***************************************************************************)
blendFuncSrc(state) == stateToBlendFunc(state, BLEND_SRC_RANGE, BLEND_SRC_SHIFT)
blendFuncDst(state) == stateToBlendFunc(state, BLEND_DST_RANGE, BLEND_DST_SHIFT)
depthFunc(state) == ShiftRight(BitAnd(state, DEPTH_FUNC_RANGE), DEPTH_FUNC_SHIFT) + GL_NEVER

capsDiff(state, otherState) ==
  BitXor(BitAnd(otherState, CAPS_RANGE), BitAnd(state, CAPS_RANGE))

blendDiff(state, otherState) ==
  IF BitAnd(state, CAP_BLEND) = 0 THEN 0
  ELSE BitXor(BitAnd(otherState, BLEND_FUNC_RANGE), BitAnd(state, BLEND_FUNC_RANGE))

depthFuncDiff(state, otherState) ==
  IF BitAnd(state, CAP_DEPTH_TEST) = 0 THEN 0
  ELSE BitXor(BitAnd(otherState, DEPTH_FUNC_RANGE), BitAnd(state, DEPTH_FUNC_RANGE))

\* a setCap that enables where the code disables and disables where it enables
setCapInverted(glEnum, cap, prevState, state) ==
  LET change == BitAnd(state, cap) - BitAnd(prevState, cap)
  IN IF change = 0 THEN <<>>
     ELSE IF change < 0 THEN <<GLCall("enable", glEnum, 0, 0, 0)>>
     ELSE <<GLCall("disable", glEnum, 0, 0, 0)>>

\* setCap(gl, glEnum, cap, prevState, state)
setCap(glEnum, cap, prevState, state) ==
  LET change == BitAnd(state, cap) - BitAnd(prevState, cap)
  IN IF change = 0 THEN <<>>
     ELSE IF change > 0 THEN <<GLCall("enable", glEnum, 0, 0, 0)>>
     ELSE <<GLCall("disable", glEnum, 0, 0, 0)>>

\* a prevState that ignores the previous material
PrevStateAlwaysComplement(state, prev) == BitNot(state)

\* variant: a null prevMaterial is diffed as the empty state word
PrevStateNullAsZero(state, prev) == IF prev # -1 THEN prev ELSE 0

\* line 1211: a null prevMaterial is diffed as the complement of the state
PrevStateOf(state, prev) == IF prev # -1 THEN prev ELSE BitNot(state)

\* Renderer._bindMaterialState(material, prevMaterial): the GL calls it issues
\* and the two reset flags it leaves.  prev = -1 stands for prevMaterial = null.
bindMaterialState(state, prev, reset) ==
  LET prevState == PrevStateOf(state, prev)
      colorMaskChange == BitAnd(state, CAP_COLOR_MASK) - BitAnd(prevState, CAP_COLOR_MASK)
      depthMaskChange == BitAnd(state, CAP_DEPTH_MASK) - BitAnd(prevState, CAP_DEPTH_MASK)
      stencilMaskChange == BitAnd(state, CAP_STENCIL_MASK) - BitAnd(prevState, CAP_STENCIL_MASK)
      caps == capsDiff(state, prevState) # 0
      capCalls ==
        IF ~caps THEN <<>>
        ELSE setCap("CULL_FACE", CAP_CULL_FACE, prevState, state)
             \o setCap("BLEND", CAP_BLEND, prevState, state)
             \o setCap("DEPTH_TEST", CAP_DEPTH_TEST, prevState, state)
             \o setCap("STENCIL_TEST", CAP_STENCIL_TEST, prevState, state)
             \o (IF colorMaskChange # 0
                 THEN <<GLCall("colorMask", "", IF colorMaskChange > 1 THEN 1 ELSE 0, 0, 0)>>
                 ELSE <<>>)
             \o (IF depthMaskChange # 0
                 THEN <<GLCall("depthMask", "", IF depthMaskChange > 1 THEN 1 ELSE 0, 0, 0)>>
                 ELSE <<>>)
             \o (IF stencilMaskChange # 0
                 THEN <<GLCall("stencilMask", "", IF stencilMaskChange > 1 THEN 255 ELSE 0, 0, 0)>>
                 ELSE <<>>)
      blendCalls ==
        IF blendDiff(state, prevState) # 0
        THEN <<GLCall("blendFunc", "", blendFuncSrc(state), blendFuncDst(state), 0)>>
        ELSE <<>>
      depthCalls ==
        IF depthFuncDiff(state, prevState) # 0
        THEN <<GLCall("depthFunc", "", depthFunc(state), 0, 0)>>
        ELSE <<>>
  IN IF state = prevState
     THEN [calls |-> <<>>, reset |-> reset]
     ELSE [calls |-> capCalls \o blendCalls \o depthCalls,
           reset |-> [color |-> IF caps /\ colorMaskChange # 0
                                THEN ~(colorMaskChange > 1) ELSE reset.color,
                      depth |-> IF caps /\ depthMaskChange # 0
                                THEN ~(depthMaskChange > 1) ELSE reset.depth]]

(***************************************************************************)
(* Small helpers on sequences.                                             *)
(***************************************************************************)
Range(s) == {s[i] : i \in DOMAIN s}

(***************************************************************************)
(* RenderBuffer (renderer.js:322-342) and Renderer.createRenderBuffer.     *)
(* ready stands for _buffer # null.  src is how the data was supplied:     *)
(* "data" (already available), "promise" (a source that resolves) or       *)
(* "never" (a source that never resolves).                                 *)
(* populated says that the initial bufferData write was made, writes is the *)
(* sequence of data writes the GPU buffer received (0: the initial          *)
(* population, u > 0: the u-th updateRenderBuffer call on this buffer),     *)
(* queue the reactions registered on _promise by updateRenderBuffer, in     *)
(* the order of registration, requested the number of updateRenderBuffer    *)
(* calls and deferred the calls that found _buffer null.                    *)
(***************************************************************************)
RenderBuffer(src) ==
  [ready |-> (src = "data"), src |-> src, populated |-> (src = "data"),
   writes |-> IF src = "data" THEN <<0>> ELSE <<>>,
   queue |-> <<>>, requested |-> 0, deferred |-> {}]

\* an updateRenderBuffer that writes whether or not the buffer is populated
updateRenderBufferAtOnce(buf, u) ==
  [buf EXCEPT !.requested = u, !.writes = Append(@, u),
              !.deferred = IF buf.ready THEN @ ELSE @ \cup {u}]

\* Renderer.updateRenderBuffer(buffer, data, offset), the u-th on this buffer
updateRenderBuffer(buf, u) ==
  IF buf.ready
  THEN [buf EXCEPT !.requested = u, !.writes = Append(@, u)]
  ELSE [buf EXCEPT !.requested = u, !.queue = Append(@, u),
                   !.deferred = @ \cup {u}]

BufferKinds == {"data", "promise", "never"}

(***************************************************************************)
(* Textures.  A texture descriptor is [key, kind]; key "" is a descriptor  *)
(* without textureKey, kind "none" is a null texture.                      *)
(***************************************************************************)
TextureKeys == {"k1", "k2"}
TextureKinds == {"external", "data", "image", "video"}

\* new RenderTexture(handle)
RenderTexture(handle) ==
  [texture |-> handle, complete |-> FALSE, activeFrameId |-> 0,
   activeCallback |-> FALSE, isExternalTexture |-> FALSE, isArray |-> FALSE,
   isRenderTexture |-> TRUE, pending |-> 0, video |-> FALSE]

\* the plain object {} addExternalTexture stores for a key that is not cached
PlainObject ==
  [texture |-> 0, complete |-> FALSE, activeFrameId |-> 0,
   activeCallback |-> FALSE, isExternalTexture |-> FALSE, isArray |-> FALSE,
   isRenderTexture |-> FALSE, pending |-> 0, video |-> FALSE]

\* the texture part of the renderer's state, threaded through a handler
TexState == [textures |-> textures, textureCache |-> textureCache,
             texLog |-> texLog, err |-> ""]

CreatedTextures(tx) ==
  LET RECURSIVE Sum(_)
      Sum(K) == IF K = {} THEN 0
                ELSE LET k == CHOOSE x \in K : TRUE
                     IN tx.texLog[k].creates + Sum(K \ {k})
  IN Sum(TextureKeys)

\* a lookup that misses while the cached entry is not complete
CacheHitWhenComplete(tx, key) ==
  tx.textureCache[key] # 0 /\ tx.textures[tx.textureCache[key]].complete

\* whether the cache lookup of _getRenderTexture hits (line 1036)
CacheHit(tx, key) == tx.textureCache[key] # 0

\* variant: the GPU texture is allocated before the key is looked at
getRenderTextureAllocatingFirst(tx, texture) ==
  IF texture.kind = "none" THEN [tx |-> tx, result |-> 0]
  ELSE IF texture.key = ""
  THEN [tx |-> [tx EXCEPT !.err = "Texure does not have a valid key",
                          !.textures = Append(@, RenderTexture(CreatedTextures(tx) + 1))],
        result |-> 0]
  ELSE IF CacheHit(tx, texture.key)
  THEN [tx |-> tx, result |-> tx.textureCache[texture.key]]
  ELSE
    LET key == texture.key
        id == Len(tx.textures) + 1
        fresh == RenderTexture(CreatedTextures(tx) + 1)
        entry ==
          IF texture.kind = "external" THEN [fresh EXCEPT !.isExternalTexture = TRUE]
          ELSE IF texture.kind = "data" THEN [fresh EXCEPT !.complete = TRUE]
          ELSE [fresh EXCEPT !.pending = 1, !.video = (texture.kind = "video")]
        uploads == IF texture.kind = "external" THEN 0 ELSE 1
    IN [tx |-> [tx EXCEPT
                  !.textures = Append(tx.textures, entry),
                  !.textureCache = [tx.textureCache EXCEPT ![key] = id],
                  !.texLog = [tx.texLog EXCEPT
                                ![key] = [creates |-> @.creates + 1,
                                          uploads |-> @.uploads + uploads]]],
        result |-> id]

\* Renderer._getRenderTexture(texture): [tx, result]; result 0 is null.
getRenderTexture(tx, texture) ==
  IF texture.kind = "none" THEN [tx |-> tx, result |-> 0]
  ELSE IF texture.key = ""
  THEN [tx |-> [tx EXCEPT !.err = "Texure does not have a valid key"], result |-> 0]
  ELSE IF CacheHit(tx, texture.key)
  THEN [tx |-> tx, result |-> tx.textureCache[texture.key]]
  ELSE
    LET key == texture.key
        textureHandle == CreatedTextures(tx) + 1
        id == Len(tx.textures) + 1
        fresh == RenderTexture(textureHandle)
        entry ==
          IF texture.kind = "external" THEN [fresh EXCEPT !.isExternalTexture = TRUE]
          ELSE IF texture.kind = "data" THEN [fresh EXCEPT !.complete = TRUE]
          ELSE [fresh EXCEPT !.pending = 1, !.video = (texture.kind = "video")]
        uploads == IF texture.kind = "external" THEN 0 ELSE 1
    IN [tx |-> [tx EXCEPT
                  !.textures = Append(tx.textures, entry),
                  !.textureCache = [tx.textureCache EXCEPT ![key] = id],
                  !.texLog = [tx.texLog EXCEPT
                                ![key] = [creates |-> @.creates + 1,
                                          uploads |-> @.uploads + uploads]]],
        result |-> id]

\* isPowerOfTwo(n): (n & (n - 1)) === 0
isPowerOfTwo(n) == BitAnd(n, n - 1) = 0

\* a || b on GL enums, "" being an unset (undefined) field
OrElse(a, b) == IF a # "" THEN a ELSE b

\* Renderer._setSamplerParameters(texture): the GL calls it issues.  A sized
\* texture is [width, height, mipmap, sampler], sampler being
\* [minFilter, magFilter, wrapS, wrapT]; the a field of a texParameteri call
\* holds the enum's name.
setSamplerParameters(texture) ==
  LET sampler == texture.sampler
      powerOfTwo == isPowerOfTwo(texture.width) /\ isPowerOfTwo(texture.height)
      mipmap == powerOfTwo /\ texture.mipmap
      minFilter == OrElse(sampler.minFilter,
                          IF mipmap THEN "LINEAR_MIPMAP_LINEAR" ELSE "LINEAR")
      wrapS == OrElse(sampler.wrapS, IF powerOfTwo THEN "REPEAT" ELSE "CLAMP_TO_EDGE")
      wrapT == OrElse(sampler.wrapT, IF powerOfTwo THEN "REPEAT" ELSE "CLAMP_TO_EDGE")
  IN (IF mipmap THEN <<GLCall("generateMipmap", "TEXTURE_2D", 0, 0, 0)>> ELSE <<>>)
     \o <<GLCall("texParameteri", "TEXTURE_MAG_FILTER", OrElse(sampler.magFilter, "LINEAR"), 0, 0),
          GLCall("texParameteri", "TEXTURE_MIN_FILTER", minFilter, 0, 0),
          GLCall("texParameteri", "TEXTURE_WRAP_S", wrapS, 0, 0),
          GLCall("texParameteri", "TEXTURE_WRAP_T", wrapT, 0, 0)>>

(***************************************************************************)
(* Programs.  An authoring material is                                     *)
(*   [name, vs, fs, defines, declares, state, renderOrder, samplers,       *)
(*    uniforms]                                                            *)
(* name "" is a missing materialName, vs/fs say whether vertexSource and   *)
(* fragmentSource are given, defines is the enumeration of                 *)
(* getProgramDefines() as "define=value" strings, and declares is the set  *)
(* of uniform names the shader sources declare.                            *)
(***************************************************************************)
\* Renderer._getProgramKey(name, defines)
getProgramKey(name, defines) == <<name>> \o defines

\* variant: the lookup never finds a cached program
FindProgramNever(cache, key) == 0

\* key in this._programCache ? this._programCache[key] : none (0)
FindProgram(cache, key) ==
  IF \E i \in DOMAIN cache : cache[i].key = key
  THEN CHOOSE i \in DOMAIN cache : cache[i].key = key
  ELSE 0

\* variant: the cache is consulted before the material is validated
getMaterialProgramCacheFirst(cache, material) ==
  LET key == getProgramKey(material.name, material.defines)
      hit == FindProgram(cache, key)
  IN IF hit # 0
     THEN [err |-> "", program |-> hit, cache |-> cache]
     ELSE IF material.name = ""
     THEN [err |-> "Material does not have a name", program |-> 0, cache |-> cache]
     ELSE IF ~material.vs
     THEN [err |-> "Material does not have a vertex source", program |-> 0, cache |-> cache]
     ELSE IF ~material.fs
     THEN [err |-> "Material does not have a fragment source", program |-> 0, cache |-> cache]
     ELSE [err |-> "", program |-> Len(cache) + 1,
           cache |-> Append(cache, [key |-> key, uniform |-> material.declares])]

\* Renderer._getMaterialProgram(material, renderPrimitive): [err, program, cache]
getMaterialProgram(cache, material) ==
  IF material.name = ""
  THEN [err |-> "Material does not have a name", program |-> 0, cache |-> cache]
  ELSE IF ~material.vs
  THEN [err |-> "Material does not have a vertex source", program |-> 0, cache |-> cache]
  ELSE IF ~material.fs
  THEN [err |-> "Material does not have a fragment source", program |-> 0, cache |-> cache]
  ELSE
    LET key == getProgramKey(material.name, material.defines)
        hit == FindProgram(cache, key)
    IN IF hit # 0
       THEN [err |-> "", program |-> hit, cache |-> cache]
       ELSE [err |-> "", program |-> Len(cache) + 1,
             cache |-> Append(cache, [key |-> key, uniform |-> material.declares])]

(***************************************************************************)
(* RenderMaterial (renderer.js:546-695).                                   *)
(***************************************************************************)
RECURSIVE MaterialSamplers(_, _, _, _)
\* the constructor's loop over material._samplers: each RenderMaterialSampler
\* resolves its texture; an error leaves the loop.
MaterialSamplers(tx, samplers, i, acc) ==
  IF i > Len(samplers) \/ tx.err # "" THEN [tx |-> tx, samplers |-> acc]
  ELSE LET r == getRenderTexture(tx, samplers[i].texture)
       IN MaterialSamplers(r.tx, samplers, i + 1,
            Append(acc, [uniformName |-> samplers[i].uniformName,
                         renderTexture |-> r.result,
                         index |-> i - 1,
                         key |-> samplers[i].texture.key]))

\* a render order in which the blend bit overrides an explicit order
renderOrderBlendFirst(material) ==
  IF BitAnd(material.state, CAP_BLEND) # 0 THEN RENDER_ORDER_TRANSPARENT
  ELSE IF material.renderOrder = RENDER_ORDER_DEFAULT THEN RENDER_ORDER_OPAQUE
  ELSE material.renderOrder

\* RenderMaterial's constructor, lines 571-578
renderOrderOf(material) ==
  IF material.renderOrder = RENDER_ORDER_DEFAULT
  THEN (IF BitAnd(material.state, CAP_BLEND) # 0
        THEN RENDER_ORDER_TRANSPARENT ELSE RENDER_ORDER_OPAQUE)
  ELSE material.renderOrder

\* new RenderMaterial(renderer, material, program): [tx, material]
RenderMaterial(tx, material, program) ==
  LET s == MaterialSamplers(tx, material.samplers, 1, <<>>)
  IN [tx |-> s.tx,
      material |-> [program |-> program,
                    state |-> material.state,
                    activeFrameId |-> 0,
                    completeForActiveFrame |-> FALSE,
                    samplers |-> s.samplers,
                    uniforms |-> material.uniforms,
                    firstBind |-> TRUE,
                    renderOrder |-> renderOrderOf(material)]]

(***************************************************************************)
(* RenderPrimitive (renderer.js:362-475).  A geometry descriptor is        *)
(* [attributes, indexBuffer]: attributes is a sequence of [name, buffer],  *)
(* indexBuffer a buffer id or 0.  gen counts the assignments a primitive   *)
(* has seen; a continuation remembers the gen it was created in.           *)
(***************************************************************************)
ATTRIB_MASK(name) ==
  CASE name = "POSITION" -> 1
    [] name = "NORMAL" -> 2
    [] name = "TANGENT" -> 4
    [] name = "TEXCOORD_0" -> 8
    [] name = "TEXCOORD_1" -> 16
    [] name = "COLOR_0" -> 32
    [] OTHER -> 0

BitOr(a, b) == a + b - BitAnd(a, b)

RECURSIVE AttributeBuffers(_, _)
\* setPrimitive's loop: one RenderPrimitiveAttributeBuffer per distinct buffer
AttributeBuffers(attributes, acc) ==
  IF attributes = <<>> THEN acc
  ELSE LET b == Head(attributes).buffer
       IN AttributeBuffers(Tail(attributes),
            IF b \in Range(acc) THEN acc ELSE Append(acc, b))

RECURSIVE AttributeMask(_)
AttributeMask(attributes) ==
  IF attributes = <<>> THEN 0
  ELSE BitOr(ATTRIB_MASK(Head(attributes).name), AttributeMask(Tail(attributes)))

\* the buffers a primitive references
PrimBuffers(prim) ==
  Range(prim.attributeBuffers) \cup (IF prim.indexBuffer # 0 THEN {prim.indexBuffer} ELSE {})

\* RenderPrimitive.waitForComplete(): [prim, started]; started is the set of
\* continuations it creates (empty or one).
waitForComplete(prim, p, bufs) ==
  IF prim.promise THEN [prim |-> prim, started |-> {}]
  ELSE IF prim.material = 0 THEN [prim |-> prim, started |-> {}]
  ELSE [prim |-> [prim EXCEPT !.promise = TRUE],
        started |-> {[prim |-> p, gen |-> prim.gen,
                      deps |-> {b \in PrimBuffers(prim) : ~bufs[b].ready}]}]

\* RenderPrimitive.setPrimitive(primitive)
setPrimitive(prim, p, primitive, bufs) ==
  LET q == [prim EXCEPT
              !.promise = FALSE, !.vao = FALSE, !.complete = FALSE,
              !.attributes = primitive.attributes,
              !.attributeBuffers = AttributeBuffers(primitive.attributes, <<>>),
              !.attributeMask = AttributeMask(primitive.attributes),
              !.indexBuffer = primitive.indexBuffer,
              !.gen = @ + 1]
  IN IF q.material # 0 THEN waitForComplete(q, p, bufs)
     ELSE [prim |-> q, started |-> {}]

\* RenderPrimitive.setRenderMaterial(material)
setRenderMaterial(prim, p, material, bufs) ==
  LET q == [prim EXCEPT !.material = material, !.promise = FALSE,
                        !.complete = FALSE, !.gen = @ + 1]
  IN IF q.material # 0 THEN waitForComplete(q, p, bufs)
     ELSE [prim |-> q, started |-> {}]

\* new RenderPrimitive(primitive)
RenderPrimitive(primitive, p, bufs) ==
  setPrimitive([activeFrameId |-> 0, instances |-> <<>>, material |-> 0,
                promise |-> FALSE, vao |-> FALSE, complete |-> FALSE,
                attributes |-> <<>>, attributeBuffers |-> <<>>, attributeMask |-> 0,
                indexBuffer |-> 0, gen |-> 0, bucket |-> 0],
               p, primitive, bufs).prim

RECURSIVE Assignments(_, _)
\* the setPrimitive and setRenderMaterial calls made after creation
Assignments(ps, p) == IF p > Len(ps) THEN 0 ELSE ps[p].gen + Assignments(ps, p + 1)

TexVars == <<textures, textureCache, texLog>>
DrawVars == <<frameId, maskReset, cameraPositions, gpuMask>>
BindVars == <<boundState, prevBound>>

\* The application script's top-level state (lines 1377-1389).  xrSession and
\* insertedObject are TRUE when not null; nodes counts the inserted objects
\* held by the scene; awaitingSupport counts the click handlers suspended at
\* `await isSessionSupported`; requesting and rejecting count the
\* requestSession calls in flight, the one the browser can grant and those it
\* will reject; session is the browser's immersive session.
InitApp ==
  [xrSession |-> FALSE, xrSessionEnded |-> TRUE, insertedObject |-> FALSE,
   allowPlacement |-> TRUE, reticleVisible |-> FALSE, nodes |-> 0,
   awaitingSupport |-> 0, requesting |-> 0, rejecting |-> 0, session |-> "none"]

InitRenderer(config) ==
  /\ cfg = config
  /\ frameId = 0
  /\ buffers = <<>>
  /\ prims = <<>>
  /\ completions = {}
  /\ renderPrimitives = [b \in 0 .. RENDER_ORDER_DEFAULT - 1 |-> <<>>]
  /\ mats = <<>>
  /\ programCache = <<>>
  /\ textures = <<>>
  /\ textureCache = [k \in TextureKeys |-> 0]
  /\ texLog = [k \in TextureKeys |-> [creates |-> 0, uploads |-> 0]]
  /\ maskReset = [color |-> FALSE, depth |-> FALSE]
  /\ cameraPositions = 0
  /\ gpuMask = [color |-> TRUE, depth |-> TRUE]
  /\ glLog = <<>>
  /\ err = ""
  /\ call = Called("constructor")
  /\ boundState = -1
  /\ prevBound = -1
  /\ app = InitApp

(***************************************************************************)
(* Handlers.                                                               *)
(***************************************************************************)
\* Renderer.createRenderBuffer(target, data, usage)
CreateRenderBuffer(src) ==
  /\ Len(buffers) < MaxBufs
  /\ buffers' = Append(buffers, RenderBuffer(src))
  /\ err' = ""
  /\ UNCHANGED app
  /\ call' = Called("createRenderBuffer")
  /\ UNCHANGED <<cfg, prims, completions, renderPrimitives, mats, programCache>>
  /\ UNCHANGED <<TexVars, DrawVars, BindVars>>
  /\ glLog' = <<>>

\* the continuation createRenderBuffer chains on the data promise: the
\* initial population of the GPU buffer
SourcePopulated(b) ==
  /\ b \in DOMAIN buffers
  /\ buffers[b].src = "promise"
  /\ ~buffers[b].populated
  /\ buffers' = [buffers EXCEPT ![b].populated = TRUE, ![b].writes = Append(@, 0)]
  /\ err' = ""
  /\ UNCHANGED app
  /\ call' = Called("sourcePopulated")
  /\ UNCHANGED <<cfg, prims, completions, renderPrimitives, mats, programCache>>
  /\ UNCHANGED <<TexVars, DrawVars, BindVars>>
  /\ glLog' = <<>>

\* Renderer.updateRenderBuffer(buffer, data, offset)
UpdateRenderBuffer(b) ==
  /\ b \in DOMAIN buffers
  /\ buffers[b].requested < MaxUpdates
  /\ buffers' = [buffers EXCEPT ![b] = updateRenderBuffer(@, @.requested + 1)]
  /\ err' = ""
  /\ UNCHANGED app
  /\ call' = Called("updateRenderBuffer")
  /\ UNCHANGED <<cfg, prims, completions, renderPrimitives, mats, programCache>>
  /\ UNCHANGED <<TexVars, DrawVars, BindVars>>
  /\ glLog' = <<>>

\* the reaction updateRenderBuffer registered first on buffer._promise: it
\* calls updateRenderBuffer again, which now finds _buffer set
UpdateReplayed(b) ==
  /\ b \in DOMAIN buffers
  /\ buffers[b].ready
  /\ buffers[b].queue # <<>>
  /\ buffers' = [buffers EXCEPT ![b].queue = Tail(@),
                                ![b].writes = Append(@, Head(buffers[b].queue))]
  /\ err' = ""
  /\ UNCHANGED app
  /\ call' = Called("updateReplayed")
  /\ UNCHANGED <<cfg, prims, completions, renderPrimitives, mats, programCache>>
  /\ UNCHANGED <<TexVars, DrawVars, BindVars>>
  /\ glLog' = <<>>

\* the continuation RenderBuffer's constructor chains on it: _buffer is set
BufferResolved(b) ==
  /\ b \in DOMAIN buffers
  /\ buffers[b].src = "promise"
  /\ buffers[b].populated
  /\ ~buffers[b].ready
  /\ buffers' = [buffers EXCEPT ![b].ready = TRUE]
  /\ err' = ""
  /\ UNCHANGED app
  /\ call' = Called("bufferResolved")
  /\ UNCHANGED <<cfg, prims, completions, renderPrimitives, mats, programCache>>
  /\ UNCHANGED <<TexVars, DrawVars, BindVars>>
  /\ glLog' = <<>>

\* the continuation waitForComplete chains on Promise.all(completionPromises)
CompletionFires(c) ==
  /\ c \in completions
  /\ \A b \in c.deps : buffers[b].ready
  /\ prims' = [prims EXCEPT ![c.prim].complete = TRUE]
  /\ completions' = completions \ {c}
  /\ err' = ""
  /\ UNCHANGED app
  /\ call' = Called("completionFires")
  /\ UNCHANGED <<cfg, buffers, renderPrimitives, mats, programCache>>
  /\ UNCHANGED <<TexVars, DrawVars, BindVars>>
  /\ glLog' = <<>>

\* variant: every primitive is pushed to the opaque bucket
PushToOpaqueBucket(buckets, order, p) ==
  [buckets EXCEPT ![RENDER_ORDER_OPAQUE] = Append(@, p)]

\* this._renderPrimitives[renderMaterial._renderOrder].push(renderPrimitive)
PushToBucket(buckets, order, p) == [buckets EXCEPT ![order] = Append(@, p)]

\* Renderer.createMesh(primitive, material): createRenderPrimitive, then
\* Node.addRenderPrimitive makes the new node the primitive's first instance.
createMesh(primitive, material) ==
  /\ \A i \in DOMAIN primitive.attributes : primitive.attributes[i].buffer \in DOMAIN buffers
  /\ primitive.indexBuffer \in {0} \cup DOMAIN buffers
  /\ LET p == Len(prims) + 1
         renderPrimitive == RenderPrimitive(primitive, p, buffers)
         g == getMaterialProgram(programCache, material)
         rm == RenderMaterial(TexState, material, g.program)
         m == Len(mats) + 1
         w == setRenderMaterial(renderPrimitive, p, m, buffers)
         order == rm.material.renderOrder
     IN IF g.err # ""
        THEN /\ err' = g.err
             /\ UNCHANGED <<prims, completions, renderPrimitives, mats, programCache, TexVars>>
        ELSE IF rm.tx.err # ""
        THEN /\ err' = rm.tx.err
             /\ programCache' = g.cache
             /\ textures' = rm.tx.textures
             /\ textureCache' = rm.tx.textureCache
             /\ texLog' = rm.tx.texLog
             /\ UNCHANGED <<prims, completions, renderPrimitives, mats>>
        ELSE /\ err' = ""
             /\ programCache' = g.cache
             /\ textures' = rm.tx.textures
             /\ textureCache' = rm.tx.textureCache
             /\ texLog' = rm.tx.texLog
             /\ mats' = Append(mats, rm.material)
             /\ prims' = Append(prims, [w.prim EXCEPT !.gen = 0, !.bucket = order,
                                                      !.instances = <<0>>])
             /\ completions' = completions \cup {[c EXCEPT !.gen = 0] : c \in w.started}
             /\ renderPrimitives' = PushToBucket(renderPrimitives, order, p)
  /\ UNCHANGED app
  /\ call' = [Called("createMesh") EXCEPT !.material = material]
  /\ UNCHANGED <<cfg, buffers, DrawVars, BindVars>>
  /\ glLog' = <<>>

\* createMesh, for as long as fewer than MaxPrims primitives exist
CreateMesh(primitive, material) ==
  /\ Len(prims) < MaxPrims
  /\ createMesh(primitive, material)

\* Node.addRenderPrimitive(primitive) of one more node
AddInstance(p) ==
  /\ p \in DOMAIN prims
  /\ Len(prims[p].instances) < MaxInst
  /\ prims' = [prims EXCEPT ![p].instances = Append(@, 0)]
  /\ err' = ""
  /\ UNCHANGED app
  /\ call' = Called("addRenderPrimitive")
  /\ UNCHANGED <<cfg, buffers, completions, renderPrimitives, mats, programCache>>
  /\ UNCHANGED <<TexVars, DrawVars, BindVars>>
  /\ glLog' = <<>>

\* RenderPrimitive.setPrimitive(primitive), called by the scene graph
SetPrimitive(p, primitive) ==
  /\ p \in DOMAIN prims
  /\ Assignments(prims, 1) < MaxAssign
  /\ \A i \in DOMAIN primitive.attributes : primitive.attributes[i].buffer \in DOMAIN buffers
  /\ primitive.indexBuffer \in {0} \cup DOMAIN buffers
  /\ LET w == setPrimitive(prims[p], p, primitive, buffers)
     IN /\ prims' = [prims EXCEPT ![p] = w.prim]
        /\ completions' = completions \cup w.started
  /\ err' = ""
  /\ UNCHANGED app
  /\ call' = Called("setPrimitive")
  /\ UNCHANGED <<cfg, buffers, renderPrimitives, mats, programCache>>
  /\ UNCHANGED <<TexVars, DrawVars, BindVars>>
  /\ glLog' = <<>>

\* RenderPrimitive.setRenderMaterial(material), called by the scene graph;
\* material 0 is null.
SetRenderMaterial(p, material) ==
  /\ p \in DOMAIN prims
  /\ Assignments(prims, 1) < MaxAssign
  /\ material \in {0} \cup DOMAIN mats
  /\ LET w == setRenderMaterial(prims[p], p, material, buffers)
     IN /\ prims' = [prims EXCEPT ![p] = w.prim]
        /\ completions' = completions \cup w.started
  /\ err' = ""
  /\ UNCHANGED app
  /\ call' = Called("setRenderMaterial")
  /\ UNCHANGED <<cfg, buffers, renderPrimitives, mats, programCache>>
  /\ UNCHANGED <<TexVars, DrawVars, BindVars>>
  /\ glLog' = <<>>

(***************************************************************************)
(* Liveness propagation: rootNode.markActive(frameId).  The scene graph    *)
(* (node.js) is not part of the sources: every visible node stamps itself  *)
(* and calls markActive on its primitive.  A node is <<p, i>>: instance i  *)
(* of primitive p.  st is [prims, mats, textures, log, err].               *)
(***************************************************************************)
\* variant: the callback runs on every markActive
textureMarkActiveEveryCall(st, t, frame) ==
  LET tex == st.textures[t]
  IN IF ~tex.isRenderTexture
     THEN [st EXCEPT !.err = "TypeError: markActive is not a function"]
     ELSE IF tex.activeCallback
     THEN [st EXCEPT !.textures[t].activeFrameId = frame,
                     !.log = Append(@, GLCall("activeCallback", "", t, 0, 0))]
     ELSE st

\* RenderTexture.markActive(frameId); a plain object has no such method
textureMarkActive(st, t, frame) ==
  LET tex == st.textures[t]
  IN IF ~tex.isRenderTexture
     THEN [st EXCEPT !.err = "TypeError: markActive is not a function"]
     ELSE IF tex.activeCallback /\ tex.activeFrameId # frame
     THEN [st EXCEPT !.textures[t].activeFrameId = frame,
                     !.log = Append(@, GLCall("activeCallback", "", t, 0, 0))]
     ELSE st

RECURSIVE SamplersMarkActiveIgnoringComplete(_, _, _, _)
\* variant: an incomplete texture does not stop the material
SamplersMarkActiveIgnoringComplete(st, m, i, frame) ==
  IF i > Len(st.mats[m].samplers) \/ st.err # "" THEN st
  ELSE LET t == st.mats[m].samplers[i].renderTexture
       IN IF t = 0 \/ ~st.textures[t].complete
          THEN SamplersMarkActiveIgnoringComplete(st, m, i + 1, frame)
          ELSE SamplersMarkActiveIgnoringComplete(textureMarkActive(st, t, frame),
                                                  m, i + 1, frame)

RECURSIVE SamplersMarkActive(_, _, _, _)
\* the loop of RenderMaterial.markActive over this._samplers
SamplersMarkActive(st, m, i, frame) ==
  IF i > Len(st.mats[m].samplers) \/ st.err # "" THEN st
  ELSE LET t == st.mats[m].samplers[i].renderTexture
       IN IF t = 0 THEN SamplersMarkActive(st, m, i + 1, frame)
          ELSE IF ~st.textures[t].complete
          THEN [st EXCEPT !.mats[m].completeForActiveFrame = FALSE]
          ELSE SamplersMarkActive(textureMarkActive(st, t, frame), m, i + 1, frame)

\* RenderMaterial.markActive(frameId); its result is completeForActiveFrame
materialMarkActive(st, m, frame) ==
  IF st.mats[m].activeFrameId # frame
  THEN SamplersMarkActive(
         [st EXCEPT !.mats[m].activeFrameId = frame,
                    !.mats[m].completeForActiveFrame = TRUE], m, 1, frame)
  ELSE st

\* variant: markActive never stamps the primitive
primMarkActiveNever(st, p, frame) == st

\* RenderPrimitive.markActive(frameId)
primMarkActive(st, p, frame) ==
  LET prim == st.prims[p]
  IN IF prim.complete /\ prim.activeFrameId # frame
     THEN IF prim.material # 0
          THEN LET s2 == materialMarkActive(st, prim.material, frame)
               IN IF s2.err # "" \/ ~s2.mats[prim.material].completeForActiveFrame
                  THEN s2
                  ELSE [s2 EXCEPT !.prims[p].activeFrameId = frame]
          ELSE [st EXCEPT !.prims[p].activeFrameId = frame]
     ELSE st

RECURSIVE NodesMarkActive(_, _, _, _, _)
\* the traversal of the scene: nodes of primitive 1, then of primitive 2, ...
NodesMarkActive(st, vis, p, i, frame) ==
  IF p > Len(st.prims) \/ st.err # "" THEN st
  ELSE IF i > Len(st.prims[p].instances) THEN NodesMarkActive(st, vis, p + 1, 1, frame)
  ELSE IF <<p, i>> \notin vis THEN NodesMarkActive(st, vis, p, i + 1, frame)
  ELSE NodesMarkActive(
         primMarkActive([st EXCEPT !.prims[p].instances[i] = frame], p, frame),
         vis, p, i + 1, frame)

(***************************************************************************)
(* RenderMaterial.bind(gl).  cx is [prims, mats, textures, log, reset,     *)
(* err], threaded through the draw.                                        *)
(***************************************************************************)
\* the first-bind removal of what the program does not declare
TrimToProgram(names, declared) ==
  LET Declared(x) == x \in declared IN SelectSeq(names, Declared)

TrimSamplers(samplers, declared) ==
  LET Declared(x) == x.uniformName \in declared IN SelectSeq(samplers, Declared)

RECURSIVE BindSamplers(_, _, _)
BindSamplers(cx, m, i) ==
  IF i > Len(cx.mats[m].samplers) \/ cx.err # "" THEN cx
  ELSE LET sampler == cx.mats[m].samplers[i]
           t == sampler.renderTexture
       IN IF t = 0
          THEN [cx EXCEPT !.err = "TypeError: _renderTexture is null"]
          ELSE BindSamplers(
                 [cx EXCEPT !.log = @ \o
                    <<GLCall("activeTexture", "", sampler.index, 0, 0),
                      GLCall("bindTexture",
                             IF cx.textures[t].isArray THEN "TEXTURE_2D_ARRAY" ELSE "TEXTURE_2D",
                             IF cx.textures[t].complete THEN cx.textures[t].texture ELSE 0,
                             0, 0)>>],
                 m, i + 1)

RECURSIVE UniformCalls(_)
UniformCalls(names) ==
  IF names = <<>> THEN <<>>
  ELSE <<GLCall("uniform", Head(names), 0, 0, 0)>> \o UniformCalls(Tail(names))

\* a bind that removes from the sampler list on every call
materialBindDropsOnEveryBind(cx, m, declared) ==
  LET mat == cx.mats[m]
      trimmed == [mat EXCEPT !.samplers = IF @ = <<>> THEN @ ELSE Tail(@),
                             !.uniforms = TrimToProgram(@, declared),
                             !.firstBind = FALSE]
      c2 == BindSamplers([cx EXCEPT !.mats[m] = trimmed], m, 1)
  IN IF c2.err # "" THEN c2
     ELSE [c2 EXCEPT !.log = @ \o UniformCalls(c2.mats[m].uniforms)]

\* RenderMaterial.bind(gl): the first bind trims, every bind binds samplers
\* and uploads uniforms
materialBind(cx, m, declared) ==
  LET mat == cx.mats[m]
      trimmed == IF mat.firstBind
                 THEN [mat EXCEPT !.samplers = TrimSamplers(@, declared),
                                  !.uniforms = TrimToProgram(@, declared),
                                  !.firstBind = FALSE]
                 ELSE mat
      c2 == BindSamplers([cx EXCEPT !.mats[m] = trimmed], m, 1)
  IN IF c2.err # "" THEN c2
     ELSE [c2 EXCEPT !.log = @ \o UniformCalls(c2.mats[m].uniforms)]

(***************************************************************************)
(* Renderer._bindPrimitive and the draw loop of _drawRenderPrimitiveSet.   *)
(* A view is [projectionMatrix, viewMatrix, viewport, eyeIndex]; matrices  *)
(* are named by numbers.  depthData is [present, items]: present = FALSE   *)
(* is a null argument, items the per-eye payloads                          *)
(* [projectionMatrix, transform, texture] (0: not given; transform names   *)
(* transform.inverse.matrix).                                              *)
(***************************************************************************)
\* a renderer that takes the request for multiview without the extension
multiviewWhenRequested == cfg.multiviewRequested

multiview == cfg.multiviewRequested /\ cfg.mvExt

RECURSIVE PointerCalls(_, _)
PointerCalls(attributes, b) ==
  IF attributes = <<>> THEN <<>>
  ELSE (IF Head(attributes).buffer = b
        THEN <<GLCall("vertexAttribPointer", Head(attributes).name, b, 0, 0)>>
        ELSE <<>>) \o PointerCalls(Tail(attributes), b)

RECURSIVE AttributeBufferCalls(_, _, _)
AttributeBufferCalls(prim, bufs, i) ==
  IF i > Len(prim.attributeBuffers) THEN <<>>
  ELSE LET b == prim.attributeBuffers[i]
       IN <<GLCall("bindBuffer", "ARRAY_BUFFER", IF bufs[b].ready THEN b ELSE 0, 0, 0)>>
          \o PointerCalls(prim.attributes, b)
          \o AttributeBufferCalls(prim, bufs, i + 1)

\* Renderer._bindPrimitive(primitive, attribMask); attribMask -1 is undefined
bindPrimitive(prim, bufs, attribMask) ==
  (IF attribMask # prim.attributeMask
   THEN <<GLCall("attribArrays", "", prim.attributeMask, 0, 0)>>
   ELSE <<>>)
  \o AttributeBufferCalls(prim, bufs, 1)
  \o <<GLCall("bindBuffer", "ELEMENT_ARRAY_BUFFER",
              IF prim.indexBuffer # 0 /\ bufs[prim.indexBuffer].ready
              THEN prim.indexBuffer ELSE 0, 0, 0)>>

RECURSIVE InstanceCallsOfEveryInstance(_, _, _, _, _)
\* an instance loop that draws the instances of every frame
InstanceCallsOfEveryInstance(prim, p, i, v, frame) ==
  IF i > Len(prim.instances) THEN <<>>
  ELSE <<GLCall("uniform", "MODEL_MATRIX", 0, p, i),
         GLCall(IF prim.indexBuffer # 0 THEN "drawElements" ELSE "drawArrays",
                "", p, i, v)>>
       \o InstanceCallsOfEveryInstance(prim, p, i + 1, v, frame)

RECURSIVE InstanceCalls(_, _, _, _, _)
\* the loop over primitive._instances: one draw call per active instance
InstanceCalls(prim, p, i, v, frame) ==
  IF i > Len(prim.instances) THEN <<>>
  ELSE (IF prim.instances[i] # frame THEN <<>>
        ELSE <<GLCall("uniform", "MODEL_MATRIX", 0, p, i),
               GLCall(IF prim.indexBuffer # 0 THEN "drawElements" ELSE "drawArrays",
                      "", p, i, v)>>)
       \o InstanceCalls(prim, p, i + 1, v, frame)

Upload(name, value) == GLCall("uniform", name, value, 0, 0)

\* an upload issued in the view loop of primitive p (the log remembers p)
UploadFor(p, name, value) == GLCall("uniform", name, value, p, 0)

\* lines 974-993: the depth uniforms and the depth texture, on the first view
DepthCalls(cx, views, items, nSamplers) ==
  LET own == <<Upload("LEFT_DEPTH_PROJECTION_MATRIX", views[1].projectionMatrix),
               Upload("LEFT_DEPTH_VIEW_MATRIX", views[1].viewMatrix),
               Upload("RIGHT_DEPTH_PROJECTION_MATRIX", views[2].projectionMatrix),
               Upload("RIGHT_DEPTH_VIEW_MATRIX", views[2].viewMatrix),
               Upload("rawValueToMeters", 0)>>
      left == <<Upload("LEFT_DEPTH_PROJECTION_MATRIX", items[1].projectionMatrix),
                Upload("LEFT_DEPTH_VIEW_MATRIX", items[1].transform)>>
      texture == <<GLCall("activeTexture", "", nSamplers, 0, 0),
                   GLCall("bindTexture", "TEXTURE_2D_ARRAY", items[1].texture, 0, 0),
                   Upload("depthColor", nSamplers)>>
  IN IF items[1].projectionMatrix = 0
     THEN [cx EXCEPT !.log = @ \o own \o texture]
     ELSE IF items[1].transform = 0
     THEN [cx EXCEPT !.log = @ \o own \o <<left[1]>>,
                     !.err = "TypeError: transform is undefined"]
     ELSE IF Len(items) < 2
     THEN [cx EXCEPT !.log = @ \o own \o left,
                     !.err = "TypeError: depthData[1] is undefined"]
     ELSE IF items[2].projectionMatrix = 0
     THEN [cx EXCEPT !.log = @ \o own \o left,
                     !.err = "TypeError: uniformMatrix4fv data is undefined"]
     ELSE IF items[2].transform = 0
     THEN [cx EXCEPT !.log = @ \o own \o left
                       \o <<Upload("RIGHT_DEPTH_PROJECTION_MATRIX", items[2].projectionMatrix)>>,
                     !.err = "TypeError: transform is undefined"]
     ELSE [cx EXCEPT !.log = @ \o own \o left
                       \o <<Upload("RIGHT_DEPTH_PROJECTION_MATRIX", items[2].projectionMatrix),
                            Upload("RIGHT_DEPTH_VIEW_MATRIX", items[2].transform)>>
                       \o texture]

\* a view loop that always runs over every view
NeverBreak == FALSE

\* lines 1010-1012: with multiview one pass of the view loop covers both eyes
BreakAfterView == multiview

\* line 946: per-view viewport and uniforms only when several views are drawn
PerViewUploads(views) == Len(views) > 1

RECURSIVE ViewLoop(_, _, _, _, _, _)
\* lines 944-1013: the loop over the views of one primitive
ViewLoop(cx, p, views, depthData, i, frame) ==
  IF i > Len(views) \/ cx.err # "" THEN cx
  ELSE
    LET view == views[i]
        prim == cx.prims[p]
        several == PerViewUploads(views)
        nonEmpty == depthData.present /\ depthData.items # <<>>
        perView ==
          IF ~several THEN <<>>
          ELSE (IF view.viewport THEN <<GLCall("viewport", "", i - 1, 0, 0)>> ELSE <<>>)
            \o (IF multiview
                THEN (IF i = 1
                      THEN <<UploadFor(p, "LEFT_PROJECTION_MATRIX", views[1].projectionMatrix),
                             UploadFor(p, "LEFT_VIEW_MATRIX", views[1].viewMatrix),
                             UploadFor(p, "RIGHT_PROJECTION_MATRIX", views[2].projectionMatrix),
                             UploadFor(p, "RIGHT_VIEW_MATRIX", views[2].viewMatrix)>>
                      ELSE <<>>)
                     \o <<UploadFor(p, "CAMERA_POSITION", i - 1), UploadFor(p, "EYE_INDEX", view.eyeIndex)>>
                ELSE <<UploadFor(p, "PROJECTION_MATRIX", view.projectionMatrix),
                       UploadFor(p, "VIEW_MATRIX", view.viewMatrix),
                       UploadFor(p, "CAMERA_POSITION", i - 1),
                       UploadFor(p, "EYE_INDEX", view.eyeIndex)>>
                     \o (IF nonEmpty THEN <<UploadFor(p, "VIEW_ID", i - 1)>> ELSE <<>>))
            \o (IF depthData.present
                THEN <<UploadFor(p, "sortDepth", IF depthData.items # <<>> THEN 1 ELSE 0)>>
                ELSE <<>>)
        c1 == [cx EXCEPT !.log = @ \o perView]
        c2 == IF several /\ i = 1 /\ nonEmpty
              THEN DepthCalls(c1, views, depthData.items, Len(cx.mats[prim.material].samplers))
              ELSE c1
        c3 == [c2 EXCEPT !.log = @ \o InstanceCalls(prim, p, 1, i - 1, frame)]
    IN IF c2.err # "" THEN c2
       ELSE IF BreakAfterView THEN c3
       ELSE ViewLoop(c3, p, views, depthData, i + 1, frame)

\* a program switch that uploads no view uniforms
ProgramCallsWithoutView(program, declared, views) ==
  <<GLCall("useProgram", "", program, 0, 0)>>
  \o (IF "LIGHT_DIRECTION" \in declared THEN <<Upload("LIGHT_DIRECTION", 0)>> ELSE <<>>)
  \o (IF "LIGHT_COLOR" \in declared THEN <<Upload("LIGHT_COLOR", 0)>> ELSE <<>>)

\* the uniforms uploaded right after a program switch (lines 909-922)
ProgramCalls(program, declared, views) ==
  <<GLCall("useProgram", "", program, 0, 0)>>
  \o (IF "LIGHT_DIRECTION" \in declared THEN <<Upload("LIGHT_DIRECTION", 0)>> ELSE <<>>)
  \o (IF "LIGHT_COLOR" \in declared THEN <<Upload("LIGHT_COLOR", 0)>> ELSE <<>>)
  \o (IF Len(views) = 1
      THEN <<Upload("PROJECTION_MATRIX", views[1].projectionMatrix),
             Upload("VIEW_MATRIX", views[1].viewMatrix),
             Upload("CAMERA_POSITION", 0),
             Upload("EYE_INDEX", views[1].eyeIndex)>>
      ELSE <<>>)

\* variant: the cached vertex-array object is never found
HasVaoNever(prim) == FALSE

\* if (primitive._vao) (line 932)
HasVao(prim) == prim.vao

\* variant: the program is taken to differ for every primitive
ProgramChangedAlways(loc, program) == TRUE

\* program != primitive._material._program (line 905)
ProgramChanged(loc, program) == loc.program # program

RECURSIVE drawRenderPrimitiveSet(_, _, _, _, _, _, _)
\* Renderer._drawRenderPrimitiveSet(views, renderPrimitives, depthData), from
\* its k-th primitive on; loc holds the locals program, material, attribMask.
drawRenderPrimitiveSet(cx, views, list, depthData, k, loc, frame) ==
  IF k > Len(list) \/ cx.err # "" THEN cx
  ELSE
    LET p == list[k]
        prim == cx.prims[p]
        m == prim.material
    IN IF prim.activeFrameId # frame
       THEN drawRenderPrimitiveSet(cx, views, list, depthData, k + 1, loc, frame)
       ELSE IF m = 0
       THEN [cx EXCEPT !.err = "TypeError: _material is null"]
       ELSE
         LET program == cx.mats[m].program
             declared == programCache[program].uniform
             c1 == IF ProgramChanged(loc, program)
                   THEN [cx EXCEPT !.log = @ \o ProgramCalls(program, declared, views)]
                   ELSE cx
             st == bindMaterialState(c1.mats[m].state,
                                     IF loc.material = 0 THEN -1
                                     ELSE c1.mats[loc.material].state,
                                     c1.reset)
             c2 == IF loc.material # m
                   THEN materialBind(
                          [c1 EXCEPT !.log = @ \o st.calls
                                        \o <<GLCall("material.bind", "", m,
                                                     IF c1.mats[m].firstBind THEN 1 ELSE 0, 0)>>,
                                     !.reset = st.reset],
                          m, declared)
                   ELSE c1
             c3 == IF cfg.vaoExt
                   THEN IF HasVao(prim)
                        THEN [c2 EXCEPT !.log = @ \o <<GLCall("bindVertexArray", "", p, 0, 0)>>]
                        ELSE [c2 EXCEPT
                                !.prims[p].vao = TRUE,
                                !.log = @ \o <<GLCall("createVertexArray", "", p, 0, 0),
                                               GLCall("bindVertexArray", "", p, 0, 0)>>
                                          \o bindPrimitive(prim, buffers, -1)]
                   ELSE [c2 EXCEPT !.log = @ \o bindPrimitive(prim, buffers, loc.attribMask)]
             loc2 == [program |-> program, material |-> m,
                      attribMask |-> IF cfg.vaoExt THEN loc.attribMask
                                     ELSE prim.attributeMask]
         IN IF c2.err # "" THEN c2
            ELSE drawRenderPrimitiveSet(ViewLoop(c3, p, views, depthData, 1, frame),
                                        views, list, depthData, k + 1, loc2, frame)

\* the buckets walked from the last index to the first
BucketOrderDescending == <<3, 2, 1, 0>>

\* the indices of Renderer._renderPrimitives, as for..of walks them
BucketOrder == <<0, 1, 2, 3>>

RECURSIVE DrawBuckets(_, _, _, _, _)
\* lines 870-875: every non-empty bucket, in the order of the array
DrawBuckets(cx, views, depthData, order, frame) ==
  IF order = <<>> \/ cx.err # "" THEN cx
  ELSE LET list == renderPrimitives[Head(order)]
       IN DrawBuckets(
            IF list # <<>>
            THEN drawRenderPrimitiveSet(cx, views, list, depthData, 1,
                   [program |-> 0, material |-> 0, attribMask |-> 0], frame)
            ELSE cx,
            views, depthData, Tail(order), frame)

\* the write masks of the GL context after the calls of log
MasksAfter(mask, log) ==
  LET last(op, now) ==
        LET idx == {i \in DOMAIN log : log[i].op = op}
        IN IF idx = {} THEN now
           ELSE log[CHOOSE i \in idx : \A j \in idx : j <= i].a = 1
  IN [color |-> last("colorMask", mask.color), depth |-> last("depthMask", mask.depth)]

\* variant: the masks are not restored at the end of the frame
FrameEndCallsWithoutReset(reset) ==
  IF cfg.vaoExt THEN <<GLCall("bindVertexArray", "", 0, 0, 0)>> ELSE <<>>

\* the end of drawViews (lines 877-886): the vertex array is unbound and the
\* masks a material disabled are enabled again
FrameEndCalls(reset) ==
  (IF cfg.vaoExt THEN <<GLCall("bindVertexArray", "", 0, 0, 0)>> ELSE <<>>)
  \o (IF reset.depth THEN <<GLCall("depthMask", "", 1, 0, 0)>> ELSE <<>>)
  \o (IF reset.color THEN <<GLCall("colorMask", "", 1, 0, 0)>> ELSE <<>>)

\* variant: the frame counter is left as it is
nextFrameIdUnchanged == frameId

\* this._frameId++ (line 843)
nextFrameId == frameId + 1

\* Renderer.drawViews(views, rootNode, depthData); vis is the set of nodes
\* the scene graph finds visible in this frame.
DrawViews(views, root, vis, depthData) ==
  /\ frameId < MaxFrames
  /\ UNCHANGED app
  /\ call' = [Called("drawViews") EXCEPT !.views = views, !.root = root,
                                          !.depthData = depthData]
  /\ IF ~root
     THEN /\ glLog' = <<>>
          /\ err' = ""
          /\ UNCHANGED <<frameId, prims, mats, textures, maskReset, cameraPositions>>
          /\ UNCHANGED gpuMask
     ELSE
       \E st \in {NodesMarkActive([prims |-> prims, mats |-> mats, textures |-> textures,
                                  log |-> <<>>, err |-> ""], vis, 1, 1, nextFrameId)} :
       \E cx \in {DrawBuckets([prims |-> st.prims, mats |-> st.mats, textures |-> st.textures,
                     log |-> st.log
                       \o (IF Len(views) = 1 /\ views[1].viewport
                           THEN <<GLCall("viewport", "", 0, 0, 0)>> ELSE <<>>),
                     reset |-> maskReset, err |-> ""], views, depthData, BucketOrder, nextFrameId)} :
       LET frame == nextFrameId
           tail == FrameEndCalls(cx.reset)
       IN /\ frameId' = frame
          /\ IF st.err # ""
             THEN /\ prims' = st.prims
                  /\ mats' = st.mats
                  /\ textures' = st.textures
                  /\ glLog' = st.log
                  /\ err' = st.err
                  /\ UNCHANGED <<maskReset, cameraPositions>>
             ELSE /\ prims' = cx.prims
                  /\ mats' = cx.mats
                  /\ textures' = cx.textures
                  /\ maskReset' = cx.reset
                  /\ cameraPositions' = IF Len(views) > cameraPositions
                                        THEN Len(views) ELSE cameraPositions
                  /\ glLog' = IF cx.err # "" THEN cx.log ELSE cx.log \o tail
                  /\ err' = cx.err
          /\ gpuMask' = MasksAfter(gpuMask, glLog')
  /\ UNCHANGED <<cfg, buffers, completions, renderPrimitives, programCache>>
  /\ UNCHANGED <<textureCache, texLog, BindVars>>

(***************************************************************************)
(* Texture handlers.                                                       *)
(***************************************************************************)
\* the continuation of texture.waitForComplete() in _getRenderTexture
TextureLoaded(t) ==
  /\ t \in DOMAIN textures
  /\ textures[t].pending > 0
  /\ textures' = [textures EXCEPT ![t].pending = @ - 1, ![t].complete = TRUE]
  /\ err' = ""
  /\ UNCHANGED app
  /\ call' = Called("textureLoaded")
  /\ UNCHANGED <<cfg, buffers, prims, completions, renderPrimitives, mats, programCache>>
  /\ UNCHANGED <<textureCache, texLog, DrawVars, BindVars>>
  /\ glLog' = <<>>

\* the 'playing' listener of a video texture installs the per-frame
\* callback (lines 1061-1071); it is registered when the video has loaded
VideoPlaying(t) ==
  /\ t \in DOMAIN textures
  /\ textures[t].video /\ textures[t].complete /\ textures[t].pending = 0
  /\ ~textures[t].activeCallback
  /\ textures' = [textures EXCEPT ![t].activeCallback = TRUE]
  /\ err' = ""
  /\ UNCHANGED app
  /\ call' = Called("videoPlaying")
  /\ UNCHANGED <<cfg, buffers, prims, completions, renderPrimitives, mats, programCache>>
  /\ UNCHANGED <<textureCache, texLog, DrawVars, BindVars>>
  /\ glLog' = <<>>

\* variant: the handle is stored in a new cache entry
AddExternalTextureAsNewEntry(key, texture, isArray) ==
  /\ textures' = Append(textures, [PlainObject EXCEPT !.complete = TRUE,
                                                      !.texture = texture,
                                                      !.isArray = isArray])
  /\ textureCache' = [textureCache EXCEPT ![key] = Len(textures) + 1]
  /\ err' = ""
  /\ UNCHANGED app
  /\ call' = [Called("addExternalTexture")
                EXCEPT !.texture = [key |-> key, kind |-> "external"]]
  /\ UNCHANGED <<cfg, buffers, prims, completions, renderPrimitives, mats, programCache>>
  /\ UNCHANGED <<texLog, DrawVars, BindVars>>
  /\ glLog' = <<>>

\* Renderer.addExternalTexture(key, texture, isArray)
AddExternalTexture(key, texture, isArray) ==
  /\ LET fresh == textureCache[key] = 0
         t == IF fresh THEN Len(textures) + 1 ELSE textureCache[key]
         entries == IF fresh THEN Append(textures, PlainObject) ELSE textures
     IN /\ textures' = [entries EXCEPT ![t].complete = TRUE, ![t].texture = texture,
                                       ![t].isArray = isArray]
        /\ textureCache' = [textureCache EXCEPT ![key] = t]
  /\ err' = ""
  /\ UNCHANGED app
  /\ call' = [Called("addExternalTexture")
                EXCEPT !.texture = [key |-> key, kind |-> "external"]]
  /\ UNCHANGED <<cfg, buffers, prims, completions, renderPrimitives, mats, programCache>>
  /\ UNCHANGED <<texLog, DrawVars, BindVars>>
  /\ glLog' = <<>>

\* Renderer._setSamplerParameters(texture), as called right after the upload
\* of a texture's pixels
SetSamplerParameters(texture) ==
  /\ glLog' = setSamplerParameters(texture)
  /\ UNCHANGED app
  /\ call' = [Called("setSamplerParameters") EXCEPT !.texture = texture]
  /\ err' = ""
  /\ UNCHANGED <<cfg, buffers, prims, completions, renderPrimitives, mats, programCache>>
  /\ UNCHANGED <<textures, textureCache, texLog, DrawVars, BindVars>>

\* RenderMaterialSampler's texture setter, on sampler i of material m
SetSamplerTexture(m, i, texture) ==
  /\ m \in DOMAIN mats
  /\ i \in DOMAIN mats[m].samplers
  /\ LET r == getRenderTexture(TexState, texture)
     IN /\ textures' = r.tx.textures
        /\ textureCache' = r.tx.textureCache
        /\ texLog' = r.tx.texLog
        /\ err' = r.tx.err
        /\ mats' = IF r.tx.err # "" THEN mats
                   ELSE [mats EXCEPT ![m].samplers[i].renderTexture = r.result,
                                     ![m].samplers[i].key = texture.key]
  /\ UNCHANGED app
  /\ call' = [Called("setSamplerTexture") EXCEPT !.texture = texture]
  /\ UNCHANGED <<cfg, buffers, prims, completions, renderPrimitives, programCache>>
  /\ UNCHANGED <<DrawVars, BindVars>>
  /\ glLog' = <<>>

(***************************************************************************)
(* _bindMaterialState as a function of two state words: a walk through one *)
(* bucket that binds the state of one material after the other.            *)
(***************************************************************************)
\* _drawRenderPrimitiveSet starts a bucket with material = null
StartBucket ==
  /\ boundState # -1
  /\ boundState' = -1
  /\ prevBound' = -1
  /\ glLog' = <<>>
  /\ err' = ""
  /\ UNCHANGED app
  /\ call' = Called("startBucket")
  /\ UNCHANGED <<cfg, frameId, buffers, prims, completions, renderPrimitives, mats,
                 programCache, TexVars, maskReset, cameraPositions, gpuMask>>

\* _bindMaterialState(material, prevMaterial) for a material of state word state
BindState(state) ==
  /\ LET r == bindMaterialState(state, boundState, maskReset)
     IN /\ glLog' = r.calls
        /\ maskReset' = r.reset
        /\ gpuMask' = MasksAfter(gpuMask, r.calls)
  /\ prevBound' = boundState
  /\ boundState' = state
  /\ err' = ""
  /\ UNCHANGED app
  /\ call' = Called("bindMaterialState")
  /\ UNCHANGED <<cfg, frameId, buffers, prims, completions, renderPrimitives, mats,
                 programCache, TexVars, cameraPositions>>

(***************************************************************************)
(* Inputs.                                                                 *)
(***************************************************************************)
DefaultCaps == CAP_CULL_FACE + CAP_DEPTH_TEST + CAP_COLOR_MASK + CAP_DEPTH_MASK
\* MaterialState's defaults: SRC_ALPHA, ONE_MINUS_SRC_ALPHA, LESS
DefaultState == MakeState(DefaultCaps, 4, 5, 1)

CapSets ==
  {DefaultCaps,
   DefaultCaps + CAP_BLEND,
   CAP_BLEND + CAP_COLOR_MASK,
   DefaultCaps + CAP_STENCIL_TEST + CAP_STENCIL_MASK,
   CAP_BLEND + CAP_DEPTH_TEST + CAP_DEPTH_MASK,
   CAP_CULL_FACE + CAP_DEPTH_TEST}
BlendFuncs == {<<4, 5>>, <<1, 1>>}
DepthFuncs == {1, 3}
StateWords ==
  {MakeState(c, f[1], f[2], d) : c \in CapSets, f \in BlendFuncs, d \in DepthFuncs}

Sampler(uniformName, key, kind) ==
  [uniformName |-> uniformName, texture |-> [key |-> key, kind |-> kind]]

Material(name, state, renderOrder, samplers, uniforms, declares) ==
  [name |-> name, vs |-> TRUE, fs |-> TRUE, defines |-> <<>>, declares |-> declares,
   state |-> state, renderOrder |-> renderOrder, samplers |-> samplers,
   uniforms |-> uniforms]

MatPlain ==
  Material("Plain", DefaultState, RENDER_ORDER_DEFAULT, <<>>, <<>>, {})
MatOpaque ==
  Material("PBR", DefaultState, RENDER_ORDER_DEFAULT,
           <<Sampler("occlusionTex", "k2", "data"), Sampler("baseColorTex", "k1", "data")>>,
           <<"baseColorFactor", "emissiveFactor", "occlusionStrength">>,
           {"baseColorTex", "baseColorFactor", "LIGHT_DIRECTION", "LIGHT_COLOR"})
MatTransparent ==
  Material("Glass", MakeState(DefaultCaps + CAP_BLEND, 4, 5, 1), RENDER_ORDER_DEFAULT,
           <<>>, <<"alpha">>, {"alpha"})

Geometry(b1, b2, ib) ==
  [attributes |-> <<[name |-> "POSITION", buffer |-> b1],
                    [name |-> "NORMAL", buffer |-> b2]>>,
   indexBuffer |-> ib]

View(k, viewport) ==
  [projectionMatrix |-> 10 * k + 1, viewMatrix |-> 10 * k + 2,
   viewport |-> viewport, eyeIndex |-> k - 1]

\* a depth payload of eye k, with or without projectionMatrix and transform
Payload(k, override) ==
  [projectionMatrix |-> IF override THEN 10 * k + 3 ELSE 0,
   transform |-> IF override THEN 10 * k + 4 ELSE 0,
   texture |-> 99]

Nodes == UNION {{<<p, i>> : i \in DOMAIN prims[p].instances} : p \in DOMAIN prims}

(***************************************************************************)
(* Specifications.                                                         *)
(***************************************************************************)
\* Buffers, completeness and reassignment of primitives, drawn with one view.
Init ==
  InitRenderer([multiviewRequested |-> FALSE, mvExt |-> FALSE,
                vaoExt |-> TRUE, useDepth |-> FALSE])

Next ==
  \/ \E src \in BufferKinds : CreateRenderBuffer(src)
  \/ \E b \in DOMAIN buffers : SourcePopulated(b)
  \/ \E b \in DOMAIN buffers : BufferResolved(b)
  \/ \E c \in completions : CompletionFires(c)
  \/ \E b \in DOMAIN buffers : CreateMesh(Geometry(b, b, 0), MatPlain)
  \/ \E p \in DOMAIN prims, b \in DOMAIN buffers : SetPrimitive(p, Geometry(b, b, 0))
  \/ \E p \in DOMAIN prims, m \in {0} \cup DOMAIN mats : SetRenderMaterial(p, m)
  \/ DrawViews(<<View(1, TRUE)>>, TRUE, Nodes, NoDepth)

Spec == Init /\ [][Next]_vars

\* The state diffing of _bindMaterialState over pairs of state words.
InitBind ==
  InitRenderer([multiviewRequested |-> FALSE, mvExt |-> FALSE,
                vaoExt |-> TRUE, useDepth |-> FALSE])

NextBind ==
  \/ StartBucket
  \/ \E s \in StateWords : BindState(s)

SpecBind == InitBind /\ [][NextBind]_vars

\* Drawing: opaque and transparent meshes, shared materials, one or two
\* views, with and without hardware multiview.
InitDraw ==
  \E mv \in BOOLEAN :
    InitRenderer([multiviewRequested |-> TRUE, mvExt |-> mv,
                  vaoExt |-> FALSE, useDepth |-> FALSE])

ViewSets == {<<View(1, TRUE)>>, <<View(1, TRUE), View(2, TRUE)>>}

NextDraw ==
  \/ CreateRenderBuffer("data")
  \/ \E m \in {MatOpaque, MatTransparent} : CreateMesh(Geometry(1, 1, 0), m)
  \/ \E c \in completions : CompletionFires(c)
  \/ AddInstance(1)
  \/ \E p \in DOMAIN prims \ {1} : SetRenderMaterial(p, 1)
  \/ \E views \in ViewSets, hidden \in SUBSET {<<1, 1>>} :
       DrawViews(views, TRUE, Nodes \ hidden, NoDepth)
  \/ DrawViews(<<View(1, TRUE)>>, FALSE, {}, NoDepth)

SpecDraw == InitDraw /\ [][NextDraw]_vars

\* Textures: materials whose samplers name keyed textures of every kind,
\* re-targeted samplers, pending decodes and external textures.
MatTextured(key, kind) ==
  Material("Textured", DefaultState, RENDER_ORDER_DEFAULT,
           <<Sampler("baseColorTex", key, kind)>>, <<>>, {"baseColorTex"})

\* a material whose second sampler names a texture without a key
MatKeyless(key) ==
  Material("Textured", DefaultState, RENDER_ORDER_DEFAULT,
           <<Sampler("baseColorTex", key, "data"), Sampler("normalTex", "", "data")>>,
           <<>>, {"baseColorTex", "normalTex"})

InitTex ==
  InitRenderer([multiviewRequested |-> FALSE, mvExt |-> FALSE,
                vaoExt |-> TRUE, useDepth |-> FALSE])

NextTex ==
  \/ CreateRenderBuffer("data")
  \/ \E key \in TextureKeys \cup {""}, kind \in {"data", "image"} :
       CreateMesh(Geometry(1, 1, 0), MatTextured(key, kind))
  \/ \E key \in TextureKeys : CreateMesh(Geometry(1, 1, 0), MatKeyless(key))
  \/ \E t \in DOMAIN textures : TextureLoaded(t)
  \/ \E key \in TextureKeys : AddExternalTexture(key, 7, TRUE)
  \/ \E m \in DOMAIN mats, key \in TextureKeys \cup {""}, kind \in {"image", "external", "none"} :
       SetSamplerTexture(m, 1, [key |-> key, kind |-> kind])

SpecTex == InitTex /\ [][NextTex]_vars

\* Depth sensing: one view or two views drawn with per-eye depth payloads
\* that carry or lack the projection matrix and the transform.
InitDepth ==
  \E mv \in BOOLEAN :
    InitRenderer([multiviewRequested |-> mv, mvExt |-> TRUE,
                  vaoExt |-> TRUE, useDepth |-> TRUE])

DepthSets ==
  {[present |-> TRUE, items |-> <<>>]}
  \cup {[present |-> TRUE, items |-> <<Payload(1, o1), Payload(2, o2)>>] :
          o1 \in BOOLEAN, o2 \in BOOLEAN}

NextDepth ==
  \/ CreateRenderBuffer("data")
  \/ \E m \in {MatPlain, MatOpaque} : CreateMesh(Geometry(1, 1, 0), m)
  \/ \E c \in completions : CompletionFires(c)
  \/ \E depthData \in DepthSets :
       DrawViews(<<View(1, TRUE), View(2, TRUE)>>, TRUE, Nodes, depthData)
  \/ \E depthData \in DepthSets :
       DrawViews(<<View(1, TRUE)>>, TRUE, Nodes, depthData)

SpecDepth == InitDepth /\ [][NextDepth]_vars

\* Buffer updates: buffers of every kind of source, updated before, during
\* and after their initial population.
InitBuf ==
  InitRenderer([multiviewRequested |-> FALSE, mvExt |-> FALSE,
                vaoExt |-> TRUE, useDepth |-> FALSE])

NextBuf ==
  \/ \E src \in BufferKinds : CreateRenderBuffer(src)
  \/ \E b \in DOMAIN buffers : SourcePopulated(b)
  \/ \E b \in DOMAIN buffers : BufferResolved(b)
  \/ \E b \in DOMAIN buffers : UpdateRenderBuffer(b)
  \/ \E b \in DOMAIN buffers : UpdateReplayed(b)

SpecBuf == InitBuf /\ [][NextBuf]_vars

\* Programs: materials with and without a name, a vertex source and a
\* fragment source, whose defines are enumerated in either order.
DefineLists == {<<>>, <<"USE_A=1", "USE_B=1">>, <<"USE_B=1", "USE_A=1">>}

ProgMaterial(name, vs, fs, defines) ==
  [Material(name, DefaultState, RENDER_ORDER_DEFAULT, <<>>, <<>>, {})
     EXCEPT !.vs = vs, !.fs = fs, !.defines = defines]

ProgMaterials ==
  {ProgMaterial(name, vs, fs, defines) :
     name \in {"", "PBR", "Glass"}, vs \in BOOLEAN, fs \in BOOLEAN,
     defines \in DefineLists}

InitProg ==
  InitRenderer([multiviewRequested |-> FALSE, mvExt |-> FALSE,
                vaoExt |-> TRUE, useDepth |-> FALSE])

NextProg ==
  \/ CreateRenderBuffer("data")
  \/ \E m \in ProgMaterials : CreateMesh(Geometry(1, 1, 0), m)
  \/ \E c \in completions : CompletionFires(c)

SpecProg == InitProg /\ [][NextProg]_vars

\* Write masks: materials that disable the depth or the colour writes,
\* opaque and blended, drawn with and without the vertex-array extension,
\* in frames that return and in frames that raise.
MaskMaterials ==
  {Material("Mask", MakeState(caps, 4, 5, 1), RENDER_ORDER_DEFAULT, <<>>, <<>>, {}) :
     caps \in {DefaultCaps,
               DefaultCaps - CAP_DEPTH_MASK,
               DefaultCaps - CAP_COLOR_MASK,
               DefaultCaps - CAP_DEPTH_MASK - CAP_COLOR_MASK,
               CAP_BLEND + CAP_COLOR_MASK}}

InitMask ==
  \E vao \in BOOLEAN :
    InitRenderer([multiviewRequested |-> FALSE, mvExt |-> FALSE,
                  vaoExt |-> vao, useDepth |-> FALSE])

NextMask ==
  \/ CreateRenderBuffer("data")
  \/ \E m \in MaskMaterials : CreateMesh(Geometry(1, 1, 0), m)
  \/ \E c \in completions : CompletionFires(c)
  \/ \E p \in DOMAIN prims : SetRenderMaterial(p, 0)
  \/ \E vis \in SUBSET Nodes : DrawViews(<<View(1, TRUE)>>, TRUE, vis, NoDepth)

SpecMask == InitMask /\ [][NextMask]_vars

\* Progress: buffers whose sources resolve, textures that decode, meshes
\* that are visible in every frame.  Sources resolve, decodes finish and
\* promise continuations run (weak fairness); the application keeps drawing
\* frames, and since the model counts only MaxFrames frames, the last of them
\* stands for a frame drawn after the pending work has settled.  The weak
\* fairness of DrawFrame is stated with its enabling condition written out.
Settled ==
  /\ \A b \in DOMAIN buffers : buffers[b].ready
  /\ completions = {}
  /\ \A t \in DOMAIN textures : textures[t].pending = 0

DrawFrame ==
  /\ frameId + 1 < MaxFrames \/ Settled
  /\ DrawViews(<<View(1, TRUE)>>, TRUE, Nodes, NoDepth)

\* ENABLED <<DrawFrame>>_vars, written out: a frame can be drawn, and drawing
\* it changes the frame counter
DrawFrameEnabled == frameId < MaxFrames /\ (frameId + 1 < MaxFrames \/ Settled)

InitLive ==
  InitRenderer([multiviewRequested |-> FALSE, mvExt |-> FALSE,
                vaoExt |-> TRUE, useDepth |-> FALSE])

NextLive ==
  \/ \E src \in {"data", "promise"} : CreateRenderBuffer(src)
  \/ \E b \in DOMAIN buffers : SourcePopulated(b)
  \/ \E b \in DOMAIN buffers : BufferResolved(b)
  \/ \E c \in completions : CompletionFires(c)
  \/ \E b \in DOMAIN buffers, m \in {MatPlain, MatTextured("k1", "image")} :
       CreateMesh(Geometry(b, b, 0), m)
  \/ \E t \in DOMAIN textures : TextureLoaded(t)
  \/ DrawFrame

SpecLive ==
  /\ InitLive
  /\ [][NextLive]_vars
  /\ WF_vars(\E b \in DOMAIN buffers : SourcePopulated(b))
  /\ WF_vars(\E b \in DOMAIN buffers : BufferResolved(b))
  /\ WF_vars(\E c \in completions : CompletionFires(c))
  /\ WF_vars(\E t \in DOMAIN textures : TextureLoaded(t))
  /\ ([]<>~DrawFrameEnabled \/ []<><<DrawFrame>>_vars)

\* Runs: up to MaxRun meshes in the opaque bucket whose materials share or
\* do not share a program and a material, the second visible or hidden.
RunMaterials ==
  {Material("Plain", DefaultState, RENDER_ORDER_DEFAULT, <<>>, <<>>, {}),
   Material("Flat", MakeState(DefaultCaps, 4, 5, 3), RENDER_ORDER_DEFAULT, <<>>, <<>>, {})}

InitRun ==
  InitRenderer([multiviewRequested |-> FALSE, mvExt |-> FALSE,
                vaoExt |-> TRUE, useDepth |-> FALSE])

NextRun ==
  \/ CreateRenderBuffer("data")
  \/ \E m \in RunMaterials : Len(prims) < MaxRun /\ createMesh(Geometry(1, 1, 0), m)
  \/ \E c \in completions : CompletionFires(c)
  \/ \E p \in DOMAIN prims \ {1} : SetRenderMaterial(p, 1)
  \/ \E hidden \in SUBSET {<<2, 1>>} :
       DrawViews(<<View(1, TRUE)>>, TRUE, Nodes \ hidden, NoDepth)

SpecRun == InitRun /\ [][NextRun]_vars

\* Sampling: meshes whose materials sample a video texture once or twice
\* or an external texture, sharing textures and materials, drawn while the
\* textures are pending, loaded, playing and supplied.  An external texture
\* is supplied after a material has resolved it.
MatTwice(key, kind) ==
  Material("Textured", DefaultState, RENDER_ORDER_DEFAULT,
           <<Sampler("baseColorTex", key, kind), Sampler("emissiveTex", key, kind)>>,
           <<>>, {"baseColorTex", "emissiveTex"})

SampleMaterials ==
  {MatTextured("k1", "video"), MatTwice("k1", "video"), MatTextured("k2", "external")}

InitSample ==
  InitRenderer([multiviewRequested |-> FALSE, mvExt |-> FALSE,
                vaoExt |-> TRUE, useDepth |-> FALSE])

NextSample ==
  \/ CreateRenderBuffer("data")
  \/ \E m \in SampleMaterials : CreateMesh(Geometry(1, 1, 0), m)
  \/ \E c \in completions : CompletionFires(c)
  \/ \E t \in DOMAIN textures : TextureLoaded(t)
  \/ \E t \in DOMAIN textures : VideoPlaying(t)
  \/ textureCache["k2"] # 0 /\ AddExternalTexture("k2", 7, FALSE)
  \/ \E p \in DOMAIN prims \ {1} : SetRenderMaterial(p, 1)
  \/ DrawViews(<<View(1, TRUE)>>, TRUE, Nodes, NoDepth)

SpecSample == InitSample /\ [][NextSample]_vars

\* Unassigned samplers: a material whose declared sampler has no texture,
\* from its creation or after its texture was set to null, drawn next to a
\* material whose sampler has a complete texture.
MatUnassigned ==
  Material("Textured", DefaultState, RENDER_ORDER_DEFAULT,
           <<Sampler("baseColorTex", "", "none")>>, <<>>, {"baseColorTex"})

InitNull ==
  InitRenderer([multiviewRequested |-> FALSE, mvExt |-> FALSE,
                vaoExt |-> TRUE, useDepth |-> FALSE])

NextNull ==
  \/ CreateRenderBuffer("data")
  \/ \E m \in {MatTextured("k1", "data"), MatUnassigned} : CreateMesh(Geometry(1, 1, 0), m)
  \/ \E c \in completions : CompletionFires(c)
  \/ \E m \in DOMAIN mats : SetSamplerTexture(m, 1, NoTexture)
  \/ DrawViews(<<View(1, TRUE)>>, TRUE, Nodes, NoDepth)

SpecNull == InitNull /\ [][NextNull]_vars

\* Stereo: two views, with or without viewports, drawn by renderers of every
\* combination of the multiview request and the multiview extension.
InitStereo ==
  \E requested \in BOOLEAN, ext \in BOOLEAN :
    InitRenderer([multiviewRequested |-> requested, mvExt |-> ext,
                  vaoExt |-> TRUE, useDepth |-> FALSE])

NextStereo ==
  \/ CreateRenderBuffer("data")
  \/ \E m \in {MatPlain, MatTransparent} : CreateMesh(Geometry(1, 1, 0), m)
  \/ \E c \in completions : CompletionFires(c)
  \/ AddInstance(1)
  \/ \E left \in BOOLEAN, right \in BOOLEAN, hidden \in SUBSET {<<1, 1>>} :
       DrawViews(<<View(1, left), View(2, right)>>, TRUE, Nodes \ hidden, NoDepth)

SpecStereo == InitStereo /\ [][NextStereo]_vars

\* Sampler parameters: textures of every size up to MaxDim squared, with and
\* without mipmaps, whose sampler leaves its fields unset or sets them.
MaxDim == 4

SizedTextures ==
  {[width |-> w, height |-> h, mipmap |-> mm,
    sampler |-> [minFilter |-> f, magFilter |-> "", wrapS |-> s, wrapT |-> t]] :
     w \in 0..MaxDim, h \in 0..MaxDim, mm \in BOOLEAN,
     f \in {"", "NEAREST", "LINEAR_MIPMAP_LINEAR"},
     s \in {"", "REPEAT"}, t \in {"", "MIRRORED_REPEAT"}}

InitParams ==
  InitRenderer([multiviewRequested |-> FALSE, mvExt |-> FALSE,
                vaoExt |-> TRUE, useDepth |-> FALSE])

NextParams == \E texture \in SizedTextures : SetSamplerParameters(texture)

SpecParams == InitParams /\ [][NextParams]_vars

\* Render orders: materials of every authoring order, with and without the
\* blend capability, created, reassigned and drawn.
OrderMaterials ==
  {Material("Ordered", MakeState(caps, 4, 5, 1), order, <<>>, <<>>, {}) :
     caps \in {DefaultCaps, DefaultCaps + CAP_BLEND},
     order \in {RENDER_ORDER_OPAQUE, RENDER_ORDER_SKY, RENDER_ORDER_TRANSPARENT,
                RENDER_ORDER_ADDITIVE, RENDER_ORDER_DEFAULT}}

InitOrder ==
  InitRenderer([multiviewRequested |-> FALSE, mvExt |-> FALSE,
                vaoExt |-> TRUE, useDepth |-> FALSE])

NextOrder ==
  \/ CreateRenderBuffer("data")
  \/ \E m \in OrderMaterials : CreateMesh(Geometry(1, 1, 0), m)
  \/ \E c \in completions : CompletionFires(c)
  \/ \E p \in DOMAIN prims \ {1} : SetRenderMaterial(p, 1)
  \/ DrawViews(<<View(1, TRUE)>>, TRUE, Nodes, NoDepth)

SpecOrder == InitOrder /\ [][NextOrder]_vars

\* External textures: addExternalTexture and the creation of materials that
\* sample the same key, in every order, then drawn.
InitExt ==
  InitRenderer([multiviewRequested |-> FALSE, mvExt |-> FALSE,
                vaoExt |-> TRUE, useDepth |-> FALSE])

NextExt ==
  \/ CreateRenderBuffer("data")
  \/ \E key \in TextureKeys : CreateMesh(Geometry(1, 1, 0), MatTextured(key, "external"))
  \/ \E c \in completions : CompletionFires(c)
  \/ \E key \in TextureKeys, isArray \in BOOLEAN : AddExternalTexture(key, 7, isArray)
  \/ DrawViews(<<View(1, TRUE)>>, TRUE, Nodes, NoDepth)

SpecExt == InitExt /\ [][NextExt]_vars

(***************************************************************************)
(* The application script (lines 1370-1578).  Each event handler and each  *)
(* continuation of an await runs to completion as one action.  The DOM     *)
(* styles and the renderer the first session creates are left out.         *)
(***************************************************************************)
RendererVars ==
  <<cfg, frameId, buffers, prims, completions, renderPrimitives, mats, programCache,
    textures, textureCache, texLog, maskReset, cameraPositions, glLog, err,
    boundState, prevBound, gpuMask>>

AppStep(op, next) ==
  /\ app' = next
  /\ call' = Called(op)
  /\ UNCHANGED RendererVars

\* the click handler of startExperienceBtn up to its first await (lines
\* 1411-1422); xr says whether navigator.xr exists
StartClicked(xr) ==
  /\ app.awaitingSupport + app.requesting + app.rejecting < MaxClicks
  /\ AppStep("startClicked",
             IF ~app.xrSessionEnded \/ ~xr THEN app
             ELSE [app EXCEPT !.awaitingSupport = @ + 1])

\* the continuation of `await isSessionSupported` (lines 1422-1434): it
\* returns when AR is not supported and calls requestSession otherwise.  The
\* browser rejects a request made while an immersive session exists or
\* another request is pending.
SupportResolved(supported) ==
  /\ app.awaitingSupport > 0
  /\ AppStep("supportResolved",
             IF ~supported THEN [app EXCEPT !.awaitingSupport = @ - 1]
             ELSE IF app.session = "none" /\ app.requesting = 0
             THEN [app EXCEPT !.awaitingSupport = @ - 1, !.requesting = 1]
             ELSE [app EXCEPT !.awaitingSupport = @ - 1, !.rejecting = @ + 1])

\* requestSession resolves: lines 1436-1440 and startARSession (1446-1476)
SessionGranted ==
  /\ app.requesting = 1
  /\ AppStep("sessionGranted",
             [app EXCEPT !.requesting = 0, !.session = "active",
                         !.xrSessionEnded = FALSE, !.xrSession = TRUE])

\* requestSession rejects: the catch block (lines 1441-1443)
SessionRefused(granted) ==
  /\ IF granted THEN app.requesting = 1 ELSE app.rejecting > 0
  /\ AppStep("sessionRefused",
             IF granted THEN [app EXCEPT !.requesting = 0]
             ELSE [app EXCEPT !.rejecting = @ - 1])

\* the system ends the session; its 'end' event is dispatched later
SessionShutDown ==
  /\ app.session = "active"
  /\ AppStep("sessionShutDown", [app EXCEPT !.session = "ending"])

\* the 'end' listener (lines 1449-1453)
SessionEnded ==
  /\ app.session = "ending"
  /\ AppStep("sessionEnded", [app EXCEPT !.session = "none", !.xrSessionEnded = TRUE])

\* a select that places whenever the reticle is visible
onSelectGuardReticleOnly(a) == a.reticleVisible

\* the condition of onSelect (line 1479)
onSelectGuard(a) == a.reticleVisible /\ ~a.insertedObject /\ a.allowPlacement

\* onSelect (lines 1478-1500), the session's 'select' listener
Select ==
  /\ app.session = "active"
  /\ app.nodes < MaxNodes
  /\ AppStep("select",
             IF onSelectGuard(app)
             THEN [app EXCEPT !.insertedObject = TRUE, !.nodes = @ + 1,
                              !.allowPlacement = FALSE]
             ELSE app)

\* resetExperience (lines 1502-1515), the click handler of restartBtn
ResetExperience ==
  AppStep("restart",
          [app EXCEPT !.nodes = IF app.insertedObject THEN @ - 1 ELSE @,
                      !.insertedObject = FALSE,
                      !.allowPlacement = TRUE,
                      !.reticleVisible = TRUE])

\* exitExperience (lines 1517-1534), the click handler of exitBtn;
\* xrSession.end() has an effect on a session that is still active
ExitExperience ==
  AppStep("exit",
          [app EXCEPT !.session = IF app.xrSession /\ @ = "active" THEN "ending" ELSE @,
                      !.xrSession = FALSE,
                      !.nodes = IF app.insertedObject THEN @ - 1 ELSE @,
                      !.insertedObject = FALSE,
                      !.allowPlacement = TRUE,
                      !.reticleVisible = FALSE])

\* onXRFrame (lines 1556-1573): the reticle is shown when the hit test hits
XRFrame(hit) ==
  /\ app.session = "active"
  /\ AppStep("xrFrame", [app EXCEPT !.reticleVisible = hit])

InitAppOnly ==
  InitRenderer([multiviewRequested |-> FALSE, mvExt |-> FALSE,
                vaoExt |-> TRUE, useDepth |-> FALSE])

NextApp ==
  \/ \E xr \in BOOLEAN : StartClicked(xr)
  \/ \E supported \in BOOLEAN : SupportResolved(supported)
  \/ SessionGranted
  \/ \E granted \in BOOLEAN : SessionRefused(granted)
  \/ SessionShutDown
  \/ SessionEnded
  \/ Select
  \/ ResetExperience
  \/ ExitExperience
  \/ \E hit \in BOOLEAN : XRFrame(hit)

SpecApp == InitAppOnly /\ [][NextApp]_vars

(***************************************************************************)
(* Properties.                                                             *)
(***************************************************************************)
DrawOps == {"drawArrays", "drawElements"}

\* the primitives that are the subject of a draw call in glLog
Drawn == {glLog[i].a : i \in {j \in DOMAIN glLog : glLog[j].op \in DrawOps}}

ReferencesNeverResolving(p) ==
  \E b \in PrimBuffers(prims[p]) : buffers[b].src = "never"

\* C2: right after any drawViews call, a primitive that references a buffer
\* whose source never resolves is the subject of no draw call of that frame,
\* and the frame raised no error.
C2_NeverResolvingNeverDrawn ==
  call.op = "drawViews" =>
    \A p \in DOMAIN prims :
      ReferencesNeverResolving(p) => p \notin Drawn /\ err = ""

\* C3: in every reachable state a primitive whose complete flag is true has a
\* material attached and every buffer it currently references is ready.
C3_CompleteOnlyWhenCurrentReady ==
  \A p \in DOMAIN prims :
    prims[p].complete =>
      /\ prims[p].material # 0
      /\ \A b \in PrimBuffers(prims[p]) : buffers[b].ready

StateCallOps ==
  {"enable", "disable", "colorMask", "depthMask", "stencilMask", "blendFunc", "depthFunc"}

\* the last handler bound a material's state after another material's
BoundAfterAnother == call.op = "bindMaterialState" /\ prevBound # -1

\* C5: binding a material whose state word equals the state word of the
\* material bound just before it issues no enable/disable, no mask call, no
\* blendFunc and no depthFunc.
C5_EqualStatesNoCalls ==
  BoundAfterAnother /\ prevBound = boundState =>
    \A i \in DOMAIN glLog : glLog[i].op \notin StateCallOps

C5_Witness == BoundAfterAnother /\ prevBound = boundState

\* blend off and depth test on, followed by blend on with the same depth
\* function, the same other capability and mask bits, another blend function
BlendSwitchedOn ==
  /\ BoundAfterAnother
  /\ BitAnd(prevBound, CAP_BLEND) = 0
  /\ BitAnd(prevBound, CAP_DEPTH_TEST) # 0
  /\ BitAnd(boundState, CAPS_RANGE) = BitAnd(prevBound, CAPS_RANGE) + CAP_BLEND
  /\ BitAnd(boundState, DEPTH_FUNC_RANGE) = BitAnd(prevBound, DEPTH_FUNC_RANGE)
  /\ BitAnd(boundState, BLEND_FUNC_RANGE) # BitAnd(prevBound, BLEND_FUNC_RANGE)

\* C6: in that case the second bind issues exactly enable(BLEND) followed by
\* blendFunc with the second material's source and destination factors.
C6_BlendOnExactlyTwoCalls ==
  BlendSwitchedOn =>
    glLog = <<GLCall("enable", "BLEND", 0, 0, 0),
              GLCall("blendFunc", "", blendFuncSrc(boundState), blendFuncDst(boundState), 0)>>

C6_Witness == BlendSwitchedOn /\ Len(glLog) = 2

DrawIndices(p) == {i \in DOMAIN glLog : glLog[i].op \in DrawOps /\ glLog[i].a = p}

\* C1: in every drawViews call, every draw call of a primitive of a later
\* bucket (transparent) comes after every draw call of every primitive of an
\* earlier bucket (opaque), whatever the order of creation.
C1_TransparentAfterOpaque ==
  call.op = "drawViews" =>
    \A o, t \in DOMAIN prims :
      prims[o].bucket < prims[t].bucket =>
        \A j \in DrawIndices(o), i \in DrawIndices(t) : j < i

\* a frame that drew an opaque primitive created after a transparent one
C1_Witness ==
  /\ call.op = "drawViews"
  /\ \E o, t \in DOMAIN prims :
       /\ t < o
       /\ prims[o].bucket = RENDER_ORDER_OPAQUE
       /\ prims[t].bucket = RENDER_ORDER_TRANSPARENT
       /\ DrawIndices(o) # {}
       /\ DrawIndices(t) # {}

\* C7: the sampler list and the uniform list of a material change in no step
\* other than the one in which it is bound for the first time.
C7_TrimOnlyAtFirstBind ==
  [][\A m \in DOMAIN mats :
       (~mats[m].firstBind \/ mats'[m].firstBind) =>
         /\ mats'[m].samplers = mats[m].samplers
         /\ mats'[m].uniforms = mats[m].uniforms]_vars

\* a later bind of a material whose first bind removed a sampler and uniforms
C7_Witness ==
  \E i \in DOMAIN glLog :
    /\ glLog[i].op = "material.bind"
    /\ glLog[i].b = 0
    /\ Len(mats[glLog[i].a].samplers) = 1
    /\ Len(mats[glLog[i].a].uniforms) = 1

Uploads(name) == {i \in DOMAIN glLog : glLog[i].op = "uniform" /\ glLog[i].name = name}
Switches == {i \in DOMAIN glLog : glLog[i].op = "useProgram"}

\* the calls issued after program switch i and before the next one
UntilNextSwitch(i) ==
  {k \in DOMAIN glLog : k > i /\ \A j \in Switches : j > i => k < j}

PairUniforms ==
  {"LEFT_PROJECTION_MATRIX", "LEFT_VIEW_MATRIX",
   "RIGHT_PROJECTION_MATRIX", "RIGHT_VIEW_MATRIX"}

OneViewWithViewport ==
  call.op = "drawViews" /\ call.root /\ Len(call.views) = 1 /\ call.views[1].viewport

\* C8: a drawViews call with one view that carries a viewport sets the
\* viewport exactly once, uploads PROJECTION_MATRIX and VIEW_MATRIX exactly
\* once per program switch and at no other time, and uploads none of the
\* LEFT_/RIGHT_ projection and view matrices.
C8_OneViewUploads ==
  OneViewWithViewport =>
    /\ Cardinality({i \in DOMAIN glLog : glLog[i].op = "viewport"}) = 1
    /\ \A name \in {"PROJECTION_MATRIX", "VIEW_MATRIX"} :
         /\ \A i \in Switches : Cardinality(Uploads(name) \cap UntilNextSwitch(i)) = 1
         /\ Cardinality(Uploads(name)) = Cardinality(Switches)
    /\ \A name \in PairUniforms : Uploads(name) = {}

\* such a frame with two program switches and three draw calls
C8_Witness ==
  /\ OneViewWithViewport
  /\ Cardinality(Switches) = 2
  /\ Cardinality({i \in DOMAIN glLog : glLog[i].op \in DrawOps}) = 3

ActivePrims == {p \in DOMAIN prims : prims[p].activeFrameId = frameId}
ActiveInstances(p) == {i \in DOMAIN prims[p].instances : prims[p].instances[i] = frameId}

TwoViewsMultiview ==
  call.op = "drawViews" /\ call.root /\ Len(call.views) = 2 /\ multiview

\* C9: with two views and multiview active, every active instance of every
\* active primitive is drawn exactly once in the frame, and each of the
\* LEFT_/RIGHT_ projection and view matrices is uploaded exactly once for
\* the primitive, before the primitive's draw calls.
C9_MultiviewOneDraw ==
  TwoViewsMultiview =>
    \A p \in ActivePrims :
      /\ \A i \in ActiveInstances(p) :
           Cardinality({k \in DrawIndices(p) : glLog[k].b = i}) = 1
      /\ \A name \in PairUniforms :
           LET forPrim == {k \in Uploads(name) : glLog[k].b = p}
           IN /\ Cardinality(forPrim) = 1
              /\ \A k \in forPrim, d \in DrawIndices(p) : k < d

\* such a frame with two active primitives, one of them with two instances
C9_Witness ==
  /\ TwoViewsMultiview
  /\ Cardinality(ActivePrims) = 2
  /\ \E p \in ActivePrims : Cardinality(ActiveInstances(p)) = 2

\* the samplers that hold a texture resolved from a keyed descriptor
KeyedSamplers ==
  {x \in UNION {{<<m, i>> : i \in DOMAIN mats[m].samplers} : m \in DOMAIN mats} :
     mats[x[1]].samplers[x[2]].renderTexture # 0}

SamplerKey(x) == mats[x[1]].samplers[x[2]].key
SamplerEntry(x) == mats[x[1]].samplers[x[2]].renderTexture

\* C4: two samplers resolved from descriptors with the same key hold the same
\* cache entry (the one the cache maps the key to) and so the same texture
\* handle; per key createTexture was called at most once and at most one
\* initial upload was performed or scheduled.
C4_TextureDedup ==
  /\ \A x, y \in KeyedSamplers :
       SamplerKey(x) = SamplerKey(y) =>
         /\ SamplerEntry(x) = SamplerEntry(y)
         /\ SamplerEntry(x) = textureCache[SamplerKey(x)]
         /\ textures[SamplerEntry(x)].texture = textures[SamplerEntry(y)].texture
  /\ \A k \in TextureKeys : texLog[k].creates <= 1 /\ texLog[k].uploads <= 1

\* two samplers resolved the same key, the second while the decode of the
\* first was still pending
C4_Witness ==
  \E x, y \in KeyedSamplers :
    /\ x # y
    /\ SamplerKey(x) = SamplerKey(y)
    /\ textures[SamplerEntry(x)].pending > 0
    /\ texLog[SamplerKey(x)].creates = 1

\* the value a uniform holds at the end of the frame: its last upload
Final(name) ==
  glLog[CHOOSE i \in Uploads(name) : \A j \in Uploads(name) : j <= i].a

DepthProjection(k) ==
  IF k = 1 THEN "LEFT_DEPTH_PROJECTION_MATRIX" ELSE "RIGHT_DEPTH_PROJECTION_MATRIX"
DepthView(k) ==
  IF k = 1 THEN "LEFT_DEPTH_VIEW_MATRIX" ELSE "RIGHT_DEPTH_VIEW_MATRIX"

\* a frame of two views and two depth payloads that uploaded depth uniforms
TwoViewsWithDepth ==
  /\ call.op = "drawViews" /\ call.root /\ Len(call.views) = 2
  /\ call.depthData.present /\ Len(call.depthData.items) = 2
  /\ \A k \in {1, 2} : Uploads(DepthProjection(k)) # {} /\ Uploads(DepthView(k)) # {}

\* C10: for each eye on its own, the depth projection and depth view uniforms
\* end the frame holding the view's own projection and view matrices when the
\* eye's payload has no projection matrix, and the payload's projection
\* matrix and inverse transform when it has one.
C10_DepthFallbackPerView ==
  TwoViewsWithDepth =>
    \A k \in {1, 2} :
      LET item == call.depthData.items[k]
          view == call.views[k]
      IN IF item.projectionMatrix = 0
         THEN /\ Final(DepthProjection(k)) = view.projectionMatrix
              /\ Final(DepthView(k)) = view.viewMatrix
         ELSE /\ Final(DepthProjection(k)) = item.projectionMatrix
              /\ Final(DepthView(k)) = item.transform

\* C11: in every drawViews call with a root node, each draw call is for a
\* primitive and an instance whose active stamps both equal the frame id of
\* the call; what was stamped in an earlier frame only is not drawn.
C11_DrawnOnlyIfStampedThisFrame ==
  call.op = "drawViews" /\ call.root =>
    \A k \in DOMAIN glLog :
      glLog[k].op \in DrawOps =>
        /\ prims[glLog[k].a].activeFrameId = frameId
        /\ prims[glLog[k].a].instances[glLog[k].b] = frameId

\* a second frame that draws, while an instance stamped in the first frame was
\* not stamped again
C11_Witness ==
  /\ call.op = "drawViews" /\ call.root
  /\ frameId = 2
  /\ \E k \in DOMAIN glLog : glLog[k].op \in DrawOps
  /\ \E p \in DOMAIN prims : \E i \in DOMAIN prims[p].instances :
       /\ prims[p].instances[i] = 1
       /\ prims[p].complete

\* the positions of write u in the writes of buffer b
WritesOf(b, u) == {k \in DOMAIN buffers[b].writes : buffers[b].writes[k] = u}

\* C12: on a buffer created from an asynchronous source, every update
\* requested while the buffer was not ready is written after the initial
\* population, such updates are written in the order of their requests, and
\* each of them is either still queued or written exactly once (all of them
\* are written once the queue has drained).
C12_UpdatesReplayedInOrder ==
  \A b \in DOMAIN buffers :
    buffers[b].src # "data" =>
      /\ \A u \in buffers[b].deferred :
           /\ \A k \in WritesOf(b, u) : \E j \in WritesOf(b, 0) : j < k
           /\ Cardinality(WritesOf(b, u))
                + Cardinality({k \in DOMAIN buffers[b].queue : buffers[b].queue[k] = u}) = 1
      /\ \A u, v \in buffers[b].deferred :
           u < v => \A j \in WritesOf(b, u), k \in WritesOf(b, v) : j < k
      /\ \A u, v \in buffers[b].deferred :
           u < v /\ WritesOf(b, v) # {} => WritesOf(b, u) # {}

\* two updates requested before the buffer was ready, both replayed
C12_Witness ==
  \E b \in DOMAIN buffers :
    /\ buffers[b].src = "promise"
    /\ buffers[b].deferred = {1, 2}
    /\ buffers[b].writes = <<0, 1, 2>>

\* the material handed to createRenderPrimitive lacks a name, a vertex
\* source or a fragment source
Unusable(material) == material.name = "" \/ ~material.vs \/ ~material.fs

ProgramOf(material) ==
  FindProgram(programCache, getProgramKey(material.name, material.defines))

\* C13: a createRenderPrimitive call whose material has no name, no vertex
\* source or no fragment source raises an error, creates no primitive and no
\* material, appends nothing to any bucket and compiles no program, also when
\* a program with the same cache key is already cached.
C13_UnusableMaterialRaises ==
  [][(call'.op = "createMesh" /\ Unusable(call'.material))
       => /\ err' # ""
          /\ prims' = prims
          /\ mats' = mats
          /\ renderPrimitives' = renderPrimitives
          /\ programCache' = programCache]_vars

C13_Witness ==
  /\ call.op = "createMesh"
  /\ call.material.name # ""
  /\ ~call.material.vs
  /\ ProgramOf(call.material) # 0
  /\ err = "Material does not have a vertex source"

\* a texture descriptor that is not null and has no textureKey
Keyless(texture) == texture.kind # "none" /\ texture.key = ""

HasKeylessSampler(material) ==
  \E i \in DOMAIN material.samplers : Keyless(material.samplers[i].texture)

\* C14: a call that resolves a non-null texture descriptor without a key
\* raises an error; the textures allocated by the call are exactly those of
\* the keys the call newly cached, so the keyless descriptor allocates
\* nothing and caches nothing; a sampler re-targeted to it keeps its texture,
\* and a createRenderPrimitive with such a sampler creates no primitive and no
\* material and appends nothing to any bucket.
C14_KeylessTextureRaises ==
  [][((call'.op = "setSamplerTexture" /\ Keyless(call'.texture))
        \/ (call'.op = "createMesh" /\ ~Unusable(call'.material)
              /\ HasKeylessSampler(call'.material)))
       => /\ err' = "Texure does not have a valid key"
          /\ Len(textures') - Len(textures)
               = Cardinality({k \in TextureKeys :
                                textureCache[k] = 0 /\ textureCache'[k] # 0})
          /\ \A k \in TextureKeys : textureCache[k] # 0 => textureCache'[k] = textureCache[k]
          /\ prims' = prims
          /\ mats' = mats
          /\ renderPrimitives' = renderPrimitives]_vars

C14_Witness ==
  /\ call.op = "createMesh"
  /\ HasKeylessSampler(call.material)
  /\ Len(call.material.samplers) = 2
  /\ err = "Texure does not have a valid key"
  /\ textures # <<>>
  /\ prims = <<>>

\* C15: the program cache never holds two programs under one key and never
\* drops or replaces a program; a successful createRenderPrimitive hands the
\* new material the program cached under the key of its name and defines,
\* and compiles nothing when that key was cached already.
C15_OneProgramPerKey ==
  [][/\ \A i, j \in DOMAIN programCache' :
          programCache'[i].key = programCache'[j].key => i = j
     /\ \A i \in DOMAIN programCache :
          i \in DOMAIN programCache' /\ programCache'[i] = programCache[i]
     /\ (call'.op = "createMesh" /\ err' = "")
          => LET key == getProgramKey(call'.material.name, call'.material.defines)
                 program == mats'[Len(mats')].program
             IN /\ program \in DOMAIN programCache'
                /\ programCache'[program].key = key
                /\ (\E i \in DOMAIN programCache : programCache[i].key = key)
                     => programCache' = programCache]_vars

C15_Witness ==
  /\ call.op = "createMesh"
  /\ err = ""
  /\ Len(mats) = 2
  /\ mats[1].program = mats[2].program
  /\ Len(programCache) = 1

\* C16: two cached programs never differ only in the order of their
\* define=value pairs: equal name and equal set of pairs mean one program.
C16_KeyIgnoresDefineOrder ==
  \A i, j \in DOMAIN programCache :
    (/\ Head(programCache[i].key) = Head(programCache[j].key)
     /\ {programCache[i].key[n] : n \in 2..Len(programCache[i].key)}
          = {programCache[j].key[n] : n \in 2..Len(programCache[j].key)})
      => i = j

\* C17: a drawViews call without a root node leaves the frame counter, the
\* camera positions, every primitive, instance, material and texture stamp
\* and the mask flags as they were and issues no GPU call; a drawViews call
\* with a root node raises the frame counter by exactly one, to a value
\* other than the initial stamp 0.
C17_NoRootNoEffect ==
  [][call'.op = "drawViews"
       => IF call'.root
          THEN frameId' = frameId + 1 /\ frameId' # 0
          ELSE /\ frameId' = frameId
               /\ cameraPositions' = cameraPositions
               /\ prims' = prims
               /\ mats' = mats
               /\ textures' = textures
               /\ maskReset' = maskReset
               /\ glLog' = <<>>
               /\ err' = ""]_vars

C17_Witness ==
  /\ call.op = "drawViews"
  /\ ~call.root
  /\ frameId = 1
  /\ \E p \in DOMAIN prims : prims[p].activeFrameId = frameId
  /\ glLog = <<>>

VertexArrayBinds == {i \in DOMAIN glLog : glLog[i].op = "bindVertexArray"}

\* C18: when a drawViews call with a root node has returned, the depth and
\* the colour write masks of the GL context are enabled, and with the
\* vertex-array extension the last vertex-array call of the frame bound null.
C18_MasksRestored ==
  (call.op = "drawViews" /\ call.root /\ err = "")
    => /\ gpuMask.depth
       /\ gpuMask.color
       /\ cfg.vaoExt
            => /\ VertexArrayBinds # {}
               /\ \A i \in VertexArrayBinds :
                    (\A j \in VertexArrayBinds : j <= i) => glLog[i].a = 0

C18_Witness ==
  /\ call.op = "drawViews" /\ call.root /\ err = ""
  /\ cfg.vaoExt
  /\ frameId = 2
  /\ \E i \in DOMAIN glLog : glLog[i].op = "depthMask" /\ glLog[i].a = 0
  /\ \E i \in DOMAIN glLog : glLog[i].op = "colorMask" /\ glLog[i].a = 0
  /\ \E i \in VertexArrayBinds : glLog[i].a # 0
  /\ gpuMask = [color |-> TRUE, depth |-> TRUE]

\* the places of primitive p in the buckets
PlacesOf(p) ==
  {<<b, i>> \in UNION {{<<b, i>> : i \in DOMAIN renderPrimitives[b]} :
                          b \in DOMAIN renderPrimitives} :
     renderPrimitives[b][i] = p}

\* C19: whatever was created, reassigned and drawn, every primitive has
\* exactly one place in the buckets, it is in the bucket of the render order
\* of the material it was created with (material p of primitive p), and the
\* buckets hold nothing but created primitives.
C19_OncePerPrimitive ==
  /\ \A p \in DOMAIN prims :
       /\ Cardinality(PlacesOf(p)) = 1
       /\ \A pl \in PlacesOf(p) : pl[1] = mats[p].renderOrder
  /\ \A b \in DOMAIN renderPrimitives :
       \A i \in DOMAIN renderPrimitives[b] : renderPrimitives[b][i] \in DOMAIN prims

C19_Witness ==
  /\ Len(prims) = 2
  /\ prims[2].material = 1
  /\ mats[1].renderOrder = RENDER_ORDER_OPAQUE
  /\ mats[2].renderOrder = RENDER_ORDER_TRANSPARENT
  /\ call.op = "drawViews" /\ call.root
  /\ 2 \in Drawn

\* C20: with sources that resolve, textures that decode and every node
\* visible in every frame, a primitive that exists while frames are still to
\* be drawn is the subject of a draw call of some later drawViews call.
C20_EventuallyDrawn ==
  \A p \in 1 .. MaxPrims :
    (p \in DOMAIN prims /\ frameId < MaxFrames) ~> (p \in Drawn)

C20_Witness ==
  /\ call.op = "drawViews"
  /\ 1 \in Drawn
  /\ \E b \in PrimBuffers(prims[1]) : buffers[b].src = "promise"
  /\ mats[1].samplers # <<>>
  /\ frameId = MaxFrames

\* the last handler bound the state of the first material of a bucket
FirstInBucket == call.op = "bindMaterialState" /\ prevBound = -1

CallsOf(op, name) == {i \in DOMAIN glLog : glLog[i].op = op /\ glLog[i].name = name}

\* capability name receives exactly one call, enable or disable as its bit says
CapApplied(name, cap) ==
  IF BitAnd(boundState, cap) # 0
  THEN Cardinality(CallsOf("enable", name)) = 1 /\ CallsOf("disable", name) = {}
  ELSE Cardinality(CallsOf("disable", name)) = 1 /\ CallsOf("enable", name) = {}

\* mask call op is issued exactly once, with the value on for a set bit
MaskApplied(op, cap, on) ==
  /\ Cardinality(CallsOf(op, "")) = 1
  /\ \A i \in CallsOf(op, "") : glLog[i].a = IF BitAnd(boundState, cap) # 0 THEN on ELSE 0

\* C21: the state binding of the first material of a bucket issues, for each
\* of the four capabilities, exactly one enable or disable call matching its
\* bit, sets the colour, depth and stencil write masks once each to the value
\* of their bit, calls blendFunc (with the material's factors) exactly when
\* blending is enabled and depthFunc (with the material's function) exactly
\* when depth testing is enabled, whatever was bound before.
C21_FirstBindAppliesAll ==
  FirstInBucket =>
    /\ CapApplied("CULL_FACE", CAP_CULL_FACE)
    /\ CapApplied("BLEND", CAP_BLEND)
    /\ CapApplied("DEPTH_TEST", CAP_DEPTH_TEST)
    /\ CapApplied("STENCIL_TEST", CAP_STENCIL_TEST)
    /\ MaskApplied("colorMask", CAP_COLOR_MASK, 1)
    /\ MaskApplied("depthMask", CAP_DEPTH_MASK, 1)
    /\ MaskApplied("stencilMask", CAP_STENCIL_MASK, 255)
    /\ Cardinality(CallsOf("blendFunc", ""))
         = IF BitAnd(boundState, CAP_BLEND) # 0 THEN 1 ELSE 0
    /\ \A i \in CallsOf("blendFunc", "") :
         glLog[i].a = blendFuncSrc(boundState) /\ glLog[i].b = blendFuncDst(boundState)
    /\ Cardinality(CallsOf("depthFunc", ""))
         = IF BitAnd(boundState, CAP_DEPTH_TEST) # 0 THEN 1 ELSE 0
    /\ \A i \in CallsOf("depthFunc", "") : glLog[i].a = depthFunc(boundState)

C21_Witness ==
  /\ FirstInBucket
  /\ BitAnd(boundState, CAP_COLOR_MASK) = 0
  /\ BitAnd(boundState, CAP_BLEND) = 0
  /\ ~gpuMask.color
  /\ Len(glLog) = 8

RECURSIVE Runs(_)
\* s with every run of equal consecutive elements reduced to one element
Runs(s) ==
  IF Len(s) <= 1 THEN s
  ELSE IF s[1] = s[2] THEN Runs(Tail(s))
  ELSE <<s[1]>> \o Runs(Tail(s))

\* the first argument of the calls op of glLog, in order
ArgsOf(op) ==
  LET IsOp(e) == e.op = op
      sel == SelectSeq(glLog, IsOp)
  IN [i \in DOMAIN sel |-> sel[i].a]

\* the primitives of bucket b that are stamped with the current frame
ActiveIn(b) ==
  LET Stamped(p) == prims[p].activeFrameId = frameId
  IN SelectSeq(renderPrimitives[b], Stamped)

MaterialsIn(b) == [i \in DOMAIN ActiveIn(b) |-> prims[ActiveIn(b)[i]].material]
ProgramsIn(b) == [i \in DOMAIN ActiveIn(b) |-> mats[MaterialsIn(b)[i]].program]

\* C22: in a frame, the program.use calls are, bucket after bucket, the
\* programs of the bucket's active primitives with every run of equal
\* consecutive programs reduced to one; the material.bind calls are likewise
\* the runs of their materials; and every state call issued before the end
\* of the drawing belongs to a block that ends in a material.bind.
C22_OncePerRun ==
  (call.op = "drawViews" /\ call.root /\ err = "") =>
    /\ ArgsOf("useProgram")
         = Runs(ProgramsIn(0)) \o Runs(ProgramsIn(1))
             \o Runs(ProgramsIn(2)) \o Runs(ProgramsIn(3))
    /\ ArgsOf("material.bind")
         = Runs(MaterialsIn(0)) \o Runs(MaterialsIn(1))
             \o Runs(MaterialsIn(2)) \o Runs(MaterialsIn(3))
    /\ \A i \in DOMAIN glLog :
         LET later == {j \in DOMAIN glLog :
                         j > i /\ glLog[j].op \in {"material.bind"} \cup DrawOps}
         IN (glLog[i].op \in StateCallOps /\ later # {}) =>
              \E j \in later :
                /\ glLog[j].op = "material.bind"
                /\ \A k \in i .. j - 1 : glLog[k].op \in StateCallOps

C22_Witness ==
  /\ call.op = "drawViews" /\ call.root /\ err = ""
  /\ renderPrimitives[RENDER_ORDER_OPAQUE] = <<1, 2, 3>>
  /\ prims[1].material = 1 /\ prims[3].material = 1
  /\ prims[2].material = 2 /\ mats[2].program # mats[1].program
  /\ Drawn = {1, 3}
  /\ prims[2].complete
  /\ Len(ArgsOf("useProgram")) = 1
  /\ Len(ArgsOf("material.bind")) = 1

LayoutOps == {"attribArrays", "vertexAttribPointer", "bindBuffer"}

\* C23: with the vertex-array extension, a drawViews call creates a
\* vertex-array object for a primitive at most once and only when the
\* primitive holds none, the primitive holds one afterwards, attribute and
\* index layout calls occur only in the block that follows a creation and its
\* bind, and only setPrimitive makes a primitive drop its object.
C23_OneVaoPerAssignment ==
  [][/\ call'.op = "drawViews" =>
          /\ \A p \in DOMAIN prims :
               LET created == {i \in DOMAIN glLog' :
                                 glLog'[i].op = "createVertexArray" /\ glLog'[i].a = p}
               IN /\ Cardinality(created) <= 1
                  /\ prims[p].vao => created = {}
                  /\ created # {} => prims'[p].vao
          /\ \A i \in DOMAIN glLog' :
               glLog'[i].op \in LayoutOps =>
                 \E j \in 1 .. i - 2 :
                   /\ glLog'[j].op = "createVertexArray"
                   /\ glLog'[j + 1].op = "bindVertexArray"
                   /\ glLog'[j + 1].a = glLog'[j].a
                   /\ \A k \in j + 2 .. i : glLog'[k].op \in LayoutOps
     /\ call'.op # "setPrimitive" =>
          \A p \in DOMAIN prims : prims[p].vao => prims'[p].vao]_vars

C23_Witness ==
  /\ call.op = "drawViews" /\ err = ""
  /\ frameId = 2
  /\ 1 \in Drawn
  /\ prims[1].vao
  /\ \E i \in DOMAIN glLog : glLog[i].op = "bindVertexArray" /\ glLog[i].a = 1
  /\ \A i \in DOMAIN glLog : glLog[i].op \notin LayoutOps \cup {"createVertexArray"}

\* the textures of the live samplers of material m
SampledBy(m) ==
  {mats[m].samplers[i].renderTexture : i \in DOMAIN mats[m].samplers} \ {0}

\* primitive p has a material with a sampler texture that is not complete
AwaitsTexture(p) ==
  /\ prims[p].material # 0
  /\ \E t \in SampledBy(prims[p].material) : ~textures[t].complete

\* C24: after a drawViews call, a primitive whose material samples a texture
\* that is not complete is not stamped with the frame and is the subject of
\* no draw call, its material is not found complete for the frame, and a
\* frame with such a primitive raised no error; this covers every primitive
\* that shares the material.
C24_IncompleteTextureSkips ==
  (call.op = "drawViews" /\ call.root) =>
    \A p \in DOMAIN prims :
      AwaitsTexture(p) =>
        /\ prims[p].activeFrameId # frameId
        /\ p \notin Drawn
        /\ mats[prims[p].material].activeFrameId = frameId
             => ~mats[prims[p].material].completeForActiveFrame
        /\ err = ""

C24_Witness ==
  /\ call.op = "drawViews" /\ call.root
  /\ Len(prims) = 2
  /\ prims[1].material = 1 /\ prims[2].material = 1
  /\ prims[1].complete /\ prims[2].complete
  /\ AwaitsTexture(1)
  /\ mats[1].activeFrameId = frameId
  /\ Drawn = {}

\* the invocations of the refresh callback of texture t in glLog
CallbackRuns(t) ==
  {i \in DOMAIN glLog : glLog[i].op = "activeCallback" /\ glLog[i].a = t}

\* the materials stamped with the current frame that sample texture t
ActiveSamplersOf(t) ==
  {<<m, i>> \in UNION {{<<m, i>> : i \in DOMAIN mats[m].samplers} : m \in DOMAIN mats} :
     mats[m].activeFrameId = frameId /\ mats[m].samplers[i].renderTexture = t}

\* C25: in one drawViews call the refresh callback of a texture runs at most
\* once, however many samplers of materials marked active sample it, and
\* never for a texture without a callback.
C25_CallbackOncePerFrame ==
  call.op = "drawViews" =>
    \A t \in DOMAIN textures :
      /\ Cardinality(CallbackRuns(t)) <= 1
      /\ ~textures[t].activeCallback => CallbackRuns(t) = {}

C25_Witness ==
  /\ call.op = "drawViews" /\ err = ""
  /\ \E t \in DOMAIN textures :
       /\ textures[t].activeCallback
       /\ Cardinality(ActiveSamplersOf(t)) >= 3
       /\ Cardinality({ms[1] : ms \in ActiveSamplersOf(t)}) = 2
       /\ Cardinality(CallbackRuns(t)) = 1
  /\ Drawn = {1, 2}

\* a cache entry made by resolving an external texture
ExternalEntries == {t \in DOMAIN textures : textures[t].isExternalTexture}

KeysOf(t) == {k \in TextureKeys : textureCache[k] = t}

\* C26: an entry made by resolving an external texture has had no upload,
\* and while it is not complete no primitive whose material samples it is
\* drawn; addExternalTexture for its key completes that same entry with the
\* supplied handle and leaves the cache, the primitives and the materials as
\* they are; and in every frame that returns, every complete primitive whose
\* material's textures are all complete is drawn.
C26_ExternalTextureSupplied ==
  /\ [](/\ \A t \in ExternalEntries : \A k \in KeysOf(t) : texLog[k].uploads = 0
        /\ call.op = "drawViews" =>
             \A p \in DOMAIN prims :
               /\ (prims[p].material # 0
                    /\ \E t \in SampledBy(prims[p].material) \cap ExternalEntries :
                         ~textures[t].complete)
                    => p \notin Drawn
               /\ (call.root /\ err = "" /\ prims[p].complete /\ ~AwaitsTexture(p))
                    => p \in Drawn)
  /\ [][(call'.op = "addExternalTexture" /\ textureCache[call'.texture.key] # 0)
          => LET t == textureCache[call'.texture.key]
             IN /\ textureCache' = textureCache
                /\ Len(textures') = Len(textures)
                /\ textures'[t].complete
                /\ textures'[t].texture = 7
                /\ textures'[t].isExternalTexture = textures[t].isExternalTexture
                /\ prims' = prims
                /\ mats' = mats]_vars

C26_Witness ==
  /\ call.op = "drawViews" /\ err = ""
  /\ 1 \in Drawn
  /\ \E t \in SampledBy(prims[1].material) \cap ExternalEntries :
       /\ textures[t].complete
       /\ textures[t].texture = 7
       /\ \A k \in KeysOf(t) : texLog[k].creates = 1 /\ texLog[k].uploads = 0
  /\ frameId = 2

\* primitive p is stamped with the current frame
Stamped(p) == prims[p].material # 0 /\ prims[p].activeFrameId = frameId

\* glLog activates unit `unit` and binds `texture` right after
BindsUnit(unit, texture) ==
  \E i \in DOMAIN glLog :
    /\ glLog[i].op = "activeTexture" /\ glLog[i].a = unit
    /\ i + 1 \in DOMAIN glLog
    /\ glLog[i + 1].op = "bindTexture" /\ glLog[i + 1].a = texture

\* C27: after a drawViews call, for every live sampler of the material of a
\* primitive stamped with the frame, the sampler's texture unit was
\* activated and its backing texture bound when one is assigned and
\* complete, null bound otherwise (also when no texture is assigned), and
\* the call raised no error.
C27_BindNullWithoutError ==
  (call.op = "drawViews" /\ call.root) =>
    /\ err = ""
    /\ \A p \in DOMAIN prims :
         Stamped(p) =>
           \A i \in DOMAIN mats[prims[p].material].samplers :
             LET sampler == mats[prims[p].material].samplers[i]
                 t == sampler.renderTexture
             IN BindsUnit(sampler.index,
                          IF t # 0 /\ textures[t].complete THEN textures[t].texture ELSE 0)

\* the places of glLog where the depth texture's unit is given to depthColor
\* (line 992), two calls after the unit was activated (line 990)
DepthBinds ==
  {i \in DOMAIN glLog : glLog[i].op = "uniform" /\ glLog[i].name = "depthColor"}

\* the primitive whose view loop issued call i: the one named by the last
\* sort-depth upload before it (line 972)
PrimOfDepthBind(i) ==
  LET before == {j \in 1..i : glLog[j].op = "uniform" /\ glLog[j].name = "sortDepth"}
      last == CHOOSE j \in before : \A k \in before : k <= j
  IN glLog[last].b

\* the texture units of the live samplers of material m
SamplerUnits(m) == {mats[m].samplers[k].index : k \in DOMAIN mats[m].samplers}

\* C28: after a drawViews call, every binding of the depth texture for a
\* primitive uses a texture unit that no live sampler of the primitive's
\* material uses, also when the first bind removed samplers from the
\* material's list.
C28_DepthUnitDistinct ==
  (call.op = "drawViews" /\ call.root) =>
    \A i \in DepthBinds :
      /\ glLog[i - 2].op = "activeTexture" /\ glLog[i - 2].a = glLog[i].a
      /\ glLog[i].a \notin SamplerUnits(prims[PrimOfDepthBind(i)].material)

\* the views in which primitive p is the subject of a draw call in glLog
ViewsDrawn(p) ==
  {glLog[i].c : i \in {j \in DOMAIN glLog : glLog[j].op \in DrawOps /\ glLog[j].a = p}}

\* the sort-depth uploads issued for primitive p (line 972)
SortDepthUploads(p) ==
  {i \in DOMAIN glLog :
     glLog[i].op = "uniform" /\ glLog[i].name = "sortDepth" /\ glLog[i].b = p}

DepthUniforms ==
  {"LEFT_DEPTH_PROJECTION_MATRIX", "LEFT_DEPTH_VIEW_MATRIX",
   "RIGHT_DEPTH_PROJECTION_MATRIX", "RIGHT_DEPTH_VIEW_MATRIX", "rawValueToMeters"}

\* glLog holds, for primitive p, the depth matrices, the scale and the
\* binding of the depth texture `texture` (lines 976-992)
DepthSetFor(p, texture) ==
  \E i \in DepthBinds :
    /\ PrimOfDepthBind(i) = p
    /\ glLog[i - 1].op = "bindTexture" /\ glLog[i - 1].a = texture
    /\ \A n \in DepthUniforms :
         \E j \in 1..i : /\ glLog[j].op = "uniform" /\ glLog[j].name = n
                         /\ \E k \in SortDepthUploads(p) : k < j

\* C29: after a drawViews call with depth data, every drawn primitive has one
\* sort-depth upload per view it was drawn in, and when the depth data is not
\* empty the depth matrices, the raw-to-metres scale and the depth texture
\* were set for it; with one view as with two.
C29_DepthUploadsAnyViewCount ==
  (call.op = "drawViews" /\ call.root /\ call.depthData.present) =>
    \A p \in Drawn :
      /\ Cardinality(SortDepthUploads(p)) = Cardinality(ViewsDrawn(p))
      /\ call.depthData.items # <<>> => DepthSetFor(p, call.depthData.items[1].texture)

TwoViewsNoMultiview ==
  /\ call.op = "drawViews" /\ call.root /\ Len(call.views) = 2
  /\ ~cfg.multiviewRequested \/ ~cfg.mvExt

\* the draw calls of instance i of primitive p for view v (0 or 1)
DrawsOfView(p, i, v) ==
  {k \in DOMAIN glLog :
     glLog[k].op \in DrawOps /\ glLog[k].a = p /\ glLog[k].b = i /\ glLog[k].c = v}

\* the argument of the last call among `calls` issued before call d, -1 when
\* there is none
LastBefore(calls, d) ==
  LET before == {k \in calls : k < d}
  IN IF before = {} THEN -1
     ELSE glLog[CHOOSE k \in before : \A j \in before : j <= k].a

\* C30: after a drawViews call with two views on a renderer whose multiview
\* is not active, every active instance of every active primitive has exactly
\* one draw call per view, the one of view 0 first; at each of these draw
\* calls the viewport last set is the view's (when the view has one) and the
\* projection matrix, view matrix, camera position and eye index last
\* uploaded are the view's; no LEFT_/RIGHT_ projection or view matrix is
\* uploaded and no error is raised.
C30_OneDrawPerView ==
  TwoViewsNoMultiview =>
    /\ err = ""
    /\ \A name \in PairUniforms : Uploads(name) = {}
    /\ \A p \in ActivePrims : \A i \in ActiveInstances(p) :
         /\ \A v \in {0, 1} :
              /\ Cardinality(DrawsOfView(p, i, v)) = 1
              /\ \A d \in DrawsOfView(p, i, v) :
                   LET view == call.views[v + 1]
                   IN /\ view.viewport =>
                           LastBefore({k \in DOMAIN glLog : glLog[k].op = "viewport"}, d) = v
                      /\ LastBefore(Uploads("PROJECTION_MATRIX"), d) = view.projectionMatrix
                      /\ LastBefore(Uploads("VIEW_MATRIX"), d) = view.viewMatrix
                      /\ LastBefore(Uploads("CAMERA_POSITION"), d) = v
                      /\ LastBefore(Uploads("EYE_INDEX"), d) = view.eyeIndex
         /\ \A d0 \in DrawsOfView(p, i, 0), d1 \in DrawsOfView(p, i, 1) : d0 < d1

\* such a frame on a renderer asked for multiview without the extension,
\* with two active primitives, one of them with two active instances, and a
\* viewport on the second view only
C30_Witness ==
  /\ TwoViewsNoMultiview
  /\ cfg.multiviewRequested
  /\ ~call.views[1].viewport /\ call.views[2].viewport
  /\ Cardinality(ActivePrims) = 2
  /\ \E p \in ActivePrims : Cardinality(ActiveInstances(p)) = 2
  /\ Cardinality({k \in DOMAIN glLog : glLog[k].op \in DrawOps}) = 6

\* n is a power of two: 1, 2, 4, ...
PowerOfTwo(n) == \E k \in 0..MaxDim : n = Pow2(k)

MipmapFilters ==
  {"NEAREST_MIPMAP_NEAREST", "LINEAR_MIPMAP_NEAREST",
   "NEAREST_MIPMAP_LINEAR", "LINEAR_MIPMAP_LINEAR"}

\* the value given to texture parameter pname in glLog
Parameter(pname) ==
  LET i == CHOOSE j \in DOMAIN glLog :
             glLog[j].op = "texParameteri" /\ glLog[j].name = pname
  IN glLog[i].a

\* C31: after the sampler parameters of a texture were applied, a texture
\* whose width or height is not a power of two has a minification filter
\* without mipmaps, clamp-to-edge wrapping in both directions and no
\* generated mipmap, and a mipmapped minification filter is in force only
\* when both dimensions are powers of two.
C31_NpotClampedNoMipmap ==
  call.op = "setSamplerParameters" =>
    LET both == PowerOfTwo(call.texture.width) /\ PowerOfTwo(call.texture.height)
    IN /\ ~both =>
            /\ Parameter("TEXTURE_MIN_FILTER") \notin MipmapFilters
            /\ Parameter("TEXTURE_WRAP_S") = "CLAMP_TO_EDGE"
            /\ Parameter("TEXTURE_WRAP_T") = "CLAMP_TO_EDGE"
            /\ \A i \in DOMAIN glLog : glLog[i].op # "generateMipmap"
       /\ Parameter("TEXTURE_MIN_FILTER") \in MipmapFilters => both

\* the blend capability bit of a state word
BlendBit(state) == (state \div CAP_BLEND) % 2 = 1

\* the bucket the authoring material asks for
BucketAsked(material) ==
  IF material.renderOrder # RENDER_ORDER_DEFAULT THEN material.renderOrder
  ELSE IF BlendBit(material.state) THEN RENDER_ORDER_TRANSPARENT
  ELSE RENDER_ORDER_OPAQUE

CreatedMesh == call.op = "createMesh" /\ err = "" /\ mats # <<>>

\* C32: the render material made by a createRenderPrimitive call has the
\* authoring material's explicit render order whatever its blend bit, and for
\* the default order the transparent bucket when the blend bit of the state
\* word is set and the opaque bucket otherwise; the new primitive is filed
\* under that bucket; and no later step changes a render material's bucket.
C32_BucketFixedAtConstruction ==
  /\ [](CreatedMesh =>
          /\ mats[Len(mats)].renderOrder = BucketAsked(call.material)
          /\ \A pl \in PlacesOf(Len(prims)) : pl[1] = BucketAsked(call.material))
  /\ [][\A m \in DOMAIN mats :
          m \in DOMAIN mats' /\ mats'[m].renderOrder = mats[m].renderOrder]_vars

\* a material with the explicit opaque order and the blend bit set was made
\* and filed under the opaque bucket
C32_Witness ==
  /\ CreatedMesh
  /\ call.material.renderOrder = RENDER_ORDER_OPAQUE
  /\ BlendBit(call.material.state)
  /\ mats[Len(mats)].renderOrder = RENDER_ORDER_OPAQUE
  /\ PlacesOf(Len(prims)) = {<<RENDER_ORDER_OPAQUE, Len(renderPrimitives[RENDER_ORDER_OPAQUE])>>}

\* C33: a createRenderPrimitive call that ends in an identity error (a
\* material without name or sources, a sampler texture without a key) leaves
\* the program cache, the texture cache and every bucket as they were.
C33_FailedCreateChangesNothing ==
  [][(call'.op = "createMesh" /\ err' # "") =>
       /\ programCache' = programCache
       /\ textureCache' = textureCache
       /\ renderPrimitives' = renderPrimitives]_vars

\* C34: whatever the order of addExternalTexture and of the creation of the
\* materials that sample its key, every entry of the texture cache is a
\* render texture, and a drawViews call that marks such a material active
\* and draws it raises no error.
C34_CacheEntriesAreRenderTextures ==
  /\ \A key \in TextureKeys :
       textureCache[key] # 0 => textures[textureCache[key]].isRenderTexture
  /\ (call.op = "drawViews" /\ call.root) => err = ""

\* the requestSession calls whose promise is not settled yet
RequestsInFlight == app.requesting + app.rejecting

\* C35: at any time at most one AR session is requested or active: no
\* requestSession call is in flight while another one is or while a session
\* is active.
C35_OneSessionAtATime ==
  RequestsInFlight + (IF app.session = "active" THEN 1 ELSE 0) <= 1

\* C36: placement is allowed exactly when no inserted object exists, the
\* scene holds at most one inserted object, and a select event adds an
\* object only when the reticle is visible, no object is inserted and
\* placement is allowed.
C36_SinglePlacement ==
  /\ [](/\ app.allowPlacement <=> ~app.insertedObject
        /\ app.nodes <= 1
        /\ app.insertedObject <=> app.nodes = 1)
  /\ [][(call'.op = "select" /\ app'.nodes > app.nodes) =>
          app.reticleVisible /\ ~app.insertedObject /\ app.allowPlacement]_vars

\* a select event has run with the reticle visible and the scene holds the
\* placed object
C36_Witness ==
  /\ call.op = "select"
  /\ app.insertedObject /\ app.nodes = 1 /\ ~app.allowPlacement
  /\ app.reticleVisible
  /\ app.session = "active"

====
